---- MODULE Spec2Model ----
(***************************************************************************)
(* Inventory ledger and stock-consistency engine of inventory-control.     *)
(*                                                                         *)
(* The committed database is the pair (ledger, stock).  Every command of   *)
(* api/txn_cmd.rs, api/data_cmd.rs (import_txns) and api/system_cmd.rs     *)
(* (set_storage_root) is a task that walks through its await points: the   *)
(* migration check, write_lock.lock(), the txn_service call (one step per  *)
(* SQL statement of its storage transaction), the audit write and the      *)
(* return that drops the guard.  A storage transaction is a private        *)
(* overlay (rows to append, stock writes) that only commit() publishes;    *)
(* dropping it on an early return rolls it back.                           *)
(***************************************************************************)
EXTENDS Integers, Sequences, FiniteSets, TLC

\* ------------------------------------------------------------------ bounds
NumProcs == 2          \* concurrently running command tasks
NumLaunch == 3         \* tasks launched in the concurrent-inbound scenario
MaxQty == 2            \* largest quantity a request carries
MaxLedger == 3         \* cap on committed ledger rows
IntBits == 3           \* width of a quantity: i64 scaled down to IntBits bits
FairLedger == 2        \* ledger rows up to which the fair scenario creates movements
MaxClock == 2          \* latest reading of the system clock, and latest occurred_at

Procs == 1..NumProcs
Launch == 1..NumLaunch
AllProcs == 1..(IF NumProcs > NumLaunch THEN NumProcs ELSE NumLaunch)
NoProc == 0

Items == {"i1"}
Slots == {"s1", "s2", "s3"}
Pairs == Items \X Slots
OperatorIds == {"op1", "op2"}          \* rows of the operator table
OperatorInputs == {"op1", "op2", "op9"} \* op9 names no row
QtyInputs == 0..MaxQty
ActualInputs == (-1)..MaxQty
TxnNoInputs == 1..(MaxLedger + 1)
\* requests naming an inactive or missing operator are drawn for slot s1 and
\* the numbers up to 1 only, requests with a number below 1 for slot s1 only
InputCase(slot, n, op) == (op = "op1" /\ (n > 0 \/ slot = "s1")) \/ (slot = "s1" /\ n <= 1)

NoSlot == "none"       \* Option::None of from_slot_id / to_slot_id
NoRef == 0             \* Option::None of ref_txn_id
NoActual == -1         \* Option::None of actual_qty
NoTxnNo == 0

VARIABLES
  stock,        \* table stock: committed rows, <<item_id, slot_id>> -> qty
  ledger,       \* table txn: committed rows in insertion order
  operator,     \* table operator: id -> status
  write_lock,   \* AppState.write_lock: the task holding the guard, or NoProc
  migrating,    \* AppState.migrating
  pc,           \* per task: the await point it is at
  cmd,          \* per task: the command it runs
  req,          \* per task: arguments of the txn_service call in progress
  cur,          \* per task: local current_qty of the service call
  tx,           \* per task: its open storage transaction
  result,       \* per task: Result of the service call / of run_with_audit
  stock_before, \* history: stock table before the commit that appended ledger[k]
  clock,        \* Utc::now().timestamp(): the system clock
  view,         \* per task: what the queries of its read command returned so far
  order,        \* history: the order in which commands acquired the guard
  reader        \* csv::Reader of the running import_txns: the records of its file

vars == <<stock, ledger, operator, write_lock, migrating, pc, cmd, req, cur,
          tx, result, stock_before, clock, view, order, reader>>

\* what the steps of the mutating commands neither read for their control
\* flow nor write: the operator table, the clock, the results of readers, the
\* acquisition history and the file of an import
env == <<operator, clock, view, order, reader>>

\* ------------------------------------------------------------- data shapes
EmptyStock == [k \in {} |-> 0]
NoTx == [rows |-> <<>>, writes |-> EmptyStock]
NoReq == [kind |-> "none", item_id |-> "i1", from_slot_id |-> NoSlot,
          to_slot_id |-> NoSlot, qty |-> 0, operator_id |-> "op1",
          txn_no |-> NoTxnNo, occurred_at |-> 0, now |-> 0]
\* audit: whether run_with_audit has written the command's audit record
NoResult == [code |-> "none", txn_no |-> NoTxnNo, audit |-> "none"]
\* a read command's result: the rows of its list query and the total of its
\* count query
NoView == [what |-> "none", items |-> EmptyStock, rows |-> <<>>, total |-> 0]
\* tickets handed out, the ticket of each task's acquisition, and for each
\* ledger row the ticket of the command that inserted it
NoOrder == [next |-> 0, ticket |-> <<>>, of |-> <<>>]
\* the records of the file and the number of ledger rows there were when the
\* command took the guard
NoReader == [records |-> <<>>, base |-> 0]
Ok(no) == [code |-> "Ok", txn_no |-> no, audit |-> "none"]
Err(code) == [code |-> code, txn_no |-> NoTxnNo, audit |-> "none"]

\* occurred_at and created_at are filled in by Stamp
TxnRow(id, type, item, from, to, qty, actual, ref, op) ==
  [id |-> id, txn_no |-> id, txn_type |-> type, item_id |-> item,
   from_slot_id |-> from, to_slot_id |-> to, qty |-> qty,
   actual_qty |-> actual, ref_txn_id |-> ref, operator_id |-> op,
   occurred_at |-> 0, created_at |-> 0]

\* the arguments of a service call and its `let now = Utc::now().timestamp()`;
\* occurred_at is 0 unless the calling action chooses it
Request(kind, item, from, to, qty, op, no) ==
  [kind |-> kind, item_id |-> item, from_slot_id |-> from, to_slot_id |-> to,
   qty |-> qty, operator_id |-> op, txn_no |-> no, occurred_at |-> 0,
   now |-> clock]

\* occurred_at, created_at: now - the two time fields of every row literal
Stamp(row, r) == [row EXCEPT !.occurred_at = r.occurred_at, !.created_at = r.now]

Put(f, k, v) == [x \in DOMAIN f \cup {k} |-> IF x = k THEN v ELSE f[x]]

\* .map(|s| s.qty).unwrap_or(1): an absent row counts as quantity 1
unwrap_or_1(o) == IF o = <<>> THEN 1 ELSE o[1]

\* Option<StockRow> as a sequence of length 0 or 1; .map(|s| s.qty).unwrap_or(0)
unwrap_or_0(o) == IF o = <<>> THEN 0 ELSE o[1]

\* i64::MAX and the sum of two i64 as the machine forms it (two's complement)
MaxInt == 2^(IntBits - 1) - 1
Overflows(a, b) == a + b > MaxInt \/ a + b < -MaxInt - 1
wrapping_add(a, b) == ((a + b + 2^(IntBits - 1)) % 2^IntBits) - 2^(IntBits - 1)

\* quantity of a pair in a stock table, an absent row counting as 0
StockQty(st, item, slot) ==
  IF <<item, slot>> \in DOMAIN st THEN st[<<item, slot>>] ELSE 0

\* Uuid::new_v4(): a value no committed or in-flight row carries
UsedIds ==
  {ledger[k].id : k \in 1..Len(ledger)} \cup
  UNION {{tx[q].rows[k].id : k \in 1..Len(tx[q].rows)} : q \in AllProcs}
new_v4 == CHOOSE n \in 1..(Cardinality(UsedIds) + 1) : n \notin UsedIds

\* ------------------------------------------------------------ repositories
\* stock_repo::get_stock_tx: the transaction sees its own writes, else the
\* committed row
get_stock_tx(t, item, slot) ==
  IF <<item, slot>> \in DOMAIN t.writes THEN <<t.writes[<<item, slot>>]>>
  ELSE IF <<item, slot>> \in DOMAIN stock THEN <<stock[<<item, slot>>]>>
  ELSE <<>>

\* stock_repo::upsert_stock_tx
upsert_stock_tx(t, item, slot, qty) ==
  IF qty < 0 THEN [err |-> "ValidationError", tx |-> t]
  ELSE [err |-> "none", tx |-> [t EXCEPT !.writes = Put(@, <<item, slot>>, qty)]]

\* txn_repo::insert_txn
insert_txn(t, row) == [t EXCEPT !.rows = Append(@, row)]

\* txn_repo::get_txn_by_no (reads the pool: committed rows only)
get_txn_by_no(no) ==
  LET hits == {k \in 1..Len(ledger) : ledger[k].txn_no = no}
  IN IF hits = {} THEN <<>> ELSE <<ledger[CHOOSE k \in hits : TRUE]>>

\* txn_repo::has_reversal with the COUNT(1) > 0 test dropped
has_reversal_never(ref_txn_id) == FALSE

\* txn_repo::has_reversal
has_reversal(ref_txn_id) ==
  \E k \in 1..Len(ledger) :
    ledger[k].ref_txn_id = ref_txn_id /\ ledger[k].txn_type = "REVERSAL"

\* the status of the operator row is not looked at
require_operator_exists(operator_id) ==
  IF operator_id \notin DOMAIN operator THEN "NotFound" ELSE "none"

\* operator_repo::get_operator_by_id + txn_service::require_active_operator_by_id
require_active_operator_by_id(operator_id) ==
  IF operator_id \notin DOMAIN operator THEN "NotFound"
  ELSE IF operator[operator_id] # "active" THEN "InactiveResource"
  ELSE "none"

\* txn_service::apply_stock_delta as a single UPDATE qty = qty + delta
apply_stock_delta_blind(t, item, slot, delta) ==
  [err |-> "none",
   tx |-> [t EXCEPT !.writes =
             Put(@, <<item, slot>>,
                 wrapping_add(unwrap_or_0(get_stock_tx(t, item, slot)), delta))]]

\* txn_service::apply_stock_delta (current_qty + delta as a wrapping build
\* computes it; the overflow panic of a checking build is the action Panic)
apply_stock_delta(t, item, slot, delta) ==
  LET current_qty == unwrap_or_0(get_stock_tx(t, item, slot))
      next_qty == wrapping_add(current_qty, delta)
  IN IF next_qty < 0 THEN [err |-> "InsufficientStock", tx |-> t]
     ELSE upsert_stock_tx(t, item, slot, next_qty)

\* ------------------------------------------------------------------- Init
Init ==
  /\ stock = EmptyStock
  /\ ledger = <<>>
  /\ operator = [o \in OperatorIds |-> IF o = "op1" THEN "active" ELSE "inactive"]
  /\ write_lock = NoProc
  /\ migrating = FALSE
  /\ pc = [p \in AllProcs |-> "idle"]
  /\ cmd = [p \in AllProcs |-> "none"]
  /\ req = [p \in AllProcs |-> NoReq]
  /\ cur = [p \in AllProcs |-> 0]
  /\ tx = [p \in AllProcs |-> NoTx]
  /\ result = [p \in AllProcs |-> NoResult]
  /\ stock_before = <<>>
  /\ clock = 0
  /\ view = [p \in AllProcs |-> NoView]
  /\ order = NoOrder
  /\ reader = NoReader

db == <<stock, ledger, stock_before>>
gate == <<write_lock, migrating>>


TxPcs == {"in_insert", "in_stock",
          "out_check", "out_insert", "out_stock",
          "mv_check", "mv_insert", "mv_from", "mv_to",
          "ct_read", "ct_count", "ct_adjust", "ct_stock",
          "rv_delta", "rv_delta2", "rv_insert",
          "commit"}
\* await points at which the task is inside a txn_service call or the audit
\* write that follows it, i.e. inside the scope of `_guard`
GuardScope == TxPcs \cup {"locked", "migrate", "audit", "ret"}

\* --------------------------------------------------- storage transactions
\* a commit whose reversal row also rewrites the row it references
\* (UPDATE txn SET qty = 0 WHERE id = ref_txn_id)
Publish_updates_target(p) ==
  /\ ledger' = [k \in 1..Len(ledger) |->
                  IF \E j \in 1..Len(tx[p].rows) : tx[p].rows[j].ref_txn_id = ledger[k].id
                  THEN [ledger[k] EXCEPT !.qty = 0] ELSE ledger[k]] \o tx[p].rows
  /\ stock' = [k \in DOMAIN stock \cup DOMAIN tx[p].writes |->
                 IF k \in DOMAIN tx[p].writes THEN tx[p].writes[k] ELSE stock[k]]
  /\ stock_before' = stock_before \o [k \in 1..Len(tx[p].rows) |-> stock]

\* a commit that deletes the stock rows whose quantity became 0
Publish_deletes_empty(p) ==
  /\ ledger' = ledger \o tx[p].rows
  /\ stock' = [k \in {x \in DOMAIN stock \cup DOMAIN tx[p].writes :
                        (IF x \in DOMAIN tx[p].writes THEN tx[p].writes[x] ELSE stock[x]) # 0} |->
                 IF k \in DOMAIN tx[p].writes THEN tx[p].writes[k] ELSE stock[k]]
  /\ stock_before' = stock_before \o [k \in 1..Len(tx[p].rows) |-> stock]

\* a commit that is retried after it took effect: the rows are inserted twice
Publish_twice(p) ==
  /\ ledger' = ledger \o tx[p].rows \o tx[p].rows
  /\ stock' = [k \in DOMAIN stock \cup DOMAIN tx[p].writes |->
                 IF k \in DOMAIN tx[p].writes THEN tx[p].writes[k] ELSE stock[k]]
  /\ stock_before' = stock_before \o [k \in 1..(2 * Len(tx[p].rows)) |-> stock]

\* tx.commit(): the overlay of task p becomes the committed state
Publish(p) ==
  /\ ledger' = ledger \o tx[p].rows
  /\ stock' = [k \in DOMAIN stock \cup DOMAIN tx[p].writes |->
                 IF k \in DOMAIN tx[p].writes THEN tx[p].writes[k] ELSE stock[k]]
  /\ stock_before' = stock_before \o [k \in 1..Len(tx[p].rows) |-> stock]

\* an early return that publishes what the transaction wrote so far
Rollback_publishes(p) == Publish(p)

\* sqlx::Transaction dropped by an early return (`?` or `return Err`):
\* nothing of the overlay reaches the committed state
Rollback(p) == UNCHANGED db

\* the service call returns Err(code) before a transaction was opened
Reject(p, r, code) ==
  /\ pc' = [pc EXCEPT ![p] = "audit"]
  /\ req' = [req EXCEPT ![p] = r]
  /\ result' = [result EXCEPT ![p] = Err(code)]
  /\ UNCHANGED <<db, env, gate, cmd, cur, tx>>

\* pool.begin(): the service call goes on inside a fresh transaction
Begin(p, r, next) ==
  /\ pc' = [pc EXCEPT ![p] = next]
  /\ req' = [req EXCEPT ![p] = r]
  /\ tx' = [tx EXCEPT ![p] = NoTx]
  /\ UNCHANGED <<db, env, gate, cmd, cur, result>>

\* the service call returns Err(code) with its transaction open
TxFail(p, code) ==
  /\ pc' = [pc EXCEPT ![p] = "audit"]
  /\ result' = [result EXCEPT ![p] = Err(code)]
  /\ tx' = [tx EXCEPT ![p] = NoTx]
  /\ Rollback(p)
  /\ UNCHANGED <<env, gate, cmd, req, cur>>

\* `a + b` overflows in a build with overflow checks: the task panics and
\* unwinds, which drops the transaction and the guard; the closure of
\* run_with_audit never returns, so no result and no audit record
Panic(p) ==
  /\ pc' = [pc EXCEPT ![p] = "ret"]
  /\ result' = [result EXCEPT ![p] = Err("Panic")]
  /\ tx' = [tx EXCEPT ![p] = NoTx]
  /\ Rollback(p)
  /\ UNCHANGED <<env, gate, cmd, req, cur>>

\* one statement of the transaction: u is the Result of a stock write
TxStep(p, u, next) ==
  IF u.err # "none" THEN TxFail(p, u.err)
  ELSE /\ pc' = [pc EXCEPT ![p] = next]
       /\ tx' = [tx EXCEPT ![p] = u.tx]
       /\ UNCHANGED <<db, env, gate, cmd, req, cur, result>>

TxInsert(p, row, next) ==
  /\ pc' = [pc EXCEPT ![p] = next]
  /\ tx' = [tx EXCEPT ![p] = insert_txn(@, Stamp(row, req[p]))]
  /\ UNCHANGED <<db, env, gate, cmd, req, cur, result>>

\* a service call may start: the task holds the guard and runs a command
\* that calls txn_service; `need` rows must still fit under the cap
CanCall(p, need) ==
  /\ pc[p] = "locked"
  /\ cmd[p] \in {"txn", "import_txns"}
  /\ Len(ledger) + need <= MaxLedger

\* ------------------------------------------------------------ the gate
\* the test of the migrating flag left out
ensure_not_migrating_skipped(p) ==
  /\ pc[p] = "idle"
  /\ pc' = [pc EXCEPT ![p] = "wait"]
  /\ UNCHANGED <<db, env, gate, cmd, req, cur, tx, result>>

\* txn_cmd::create_* / reverse_txn and data_cmd::import_txns up to the lock:
\* ensure_not_migrating (Err(Conflict) while migrating) and the permission
\* check (rbac_enabled = "0": passes)
ensure_not_migrating(p) ==
  /\ pc[p] = "idle"
  /\ IF migrating
     THEN /\ pc' = [pc EXCEPT ![p] = "refused"]
          /\ result' = [result EXCEPT ![p] = Err("Conflict")]
          /\ UNCHANGED <<db, env, gate, cmd, req, cur, tx>>
     ELSE /\ pc' = [pc EXCEPT ![p] = "wait"]
          /\ UNCHANGED <<db, env, gate, cmd, req, cur, tx, result>>

\* `?` on ensure_not_migrating: the command returns the Conflict
return_conflict(p) ==
  /\ pc[p] = "refused"
  /\ pc' = [pc EXCEPT ![p] = "idle"]
  /\ result' = [result EXCEPT ![p] = NoResult]
  /\ UNCHANGED <<db, env, gate, cmd, req, cur, tx>>

\* a Mutex::lock() that hands out the guard while another task holds it
acquire_unguarded(p) == write_lock' = p

\* tokio::sync::Mutex::lock().await completes only when no task holds the guard
acquire(p) == write_lock = NoProc /\ write_lock' = p

\* let _guard = state.write_lock.lock().await, in one of the txn_cmd
\* commands or in import_txns
lock(p) ==
  /\ pc[p] = "wait"
  /\ acquire(p)
  /\ pc' = [pc EXCEPT ![p] = "locked"]
  /\ \E c \in {"txn", "import_txns"} : cmd' = [cmd EXCEPT ![p] = c]
  /\ UNCHANGED <<db, env, migrating, req, cur, tx, result>>

\* set_storage_root that does not wait for the guard to be free
set_storage_root_lock_unguarded(p) ==
  /\ pc[p] = "idle"
  /\ write_lock' = p
  /\ pc' = [pc EXCEPT ![p] = "locked"]
  /\ cmd' = [cmd EXCEPT ![p] = "set_storage_root"]
  /\ UNCHANGED <<db, env, migrating, req, cur, tx, result>>

\* system_cmd::set_storage_root: its first await is the lock itself
set_storage_root_lock(p) ==
  /\ pc[p] = "idle"
  /\ acquire(p)
  /\ pc' = [pc EXCEPT ![p] = "locked"]
  /\ cmd' = [cmd EXCEPT ![p] = "set_storage_root"]
  /\ UNCHANGED <<db, env, migrating, req, cur, tx, result>>

\* ------------------------------------------------- txn_service::create_inbound
\* validation, operator check, pool.begin()
create_inbound(p) ==
  /\ CanCall(p, 1)
  /\ \E item \in Items, to \in Slots, qty \in QtyInputs, op \in OperatorInputs :
       LET r == Request("IN", item, NoSlot, to, qty, op, NoTxnNo)
           operator_err == require_active_operator_by_id(op)
       IN IF ~InputCase(to, qty, op) THEN FALSE
          ELSE IF qty <= 0 THEN Reject(p, r, "ValidationError")
          ELSE IF operator_err # "none" THEN Reject(p, r, operator_err)
          ELSE Begin(p, r, "in_insert")

\* the row carries the slot as from_slot_id and no to_slot_id
create_inbound_insert_swapped(p) ==
  /\ pc[p] = "in_insert"
  /\ TxInsert(p, TxnRow(new_v4, "IN", req[p].item_id, req[p].to_slot_id, NoSlot,
                        req[p].qty, NoActual, NoRef, req[p].operator_id),
              "in_stock")

\* insert_txn(&mut tx, &row)
create_inbound_insert(p) ==
  /\ pc[p] = "in_insert"
  /\ TxInsert(p, TxnRow(new_v4, "IN", req[p].item_id, NoSlot, req[p].to_slot_id,
                        req[p].qty, NoActual, NoRef, req[p].operator_id),
              "in_stock")

\* next_qty = qty: the current quantity is not added
create_inbound_stock_overwrite(p) ==
  /\ pc[p] = "in_stock"
  /\ TxStep(p, upsert_stock_tx(tx[p], req[p].item_id, req[p].to_slot_id, req[p].qty),
            "commit")

\* get_stock_tx, next_qty = current + qty, upsert_stock_tx
create_inbound_stock(p) ==
  /\ pc[p] = "in_stock"
  /\ LET current == get_stock_tx(tx[p], req[p].item_id, req[p].to_slot_id)
         next_qty == wrapping_add(unwrap_or_0(current), req[p].qty)
     IN \/ TxStep(p, upsert_stock_tx(tx[p], req[p].item_id, req[p].to_slot_id, next_qty),
                  "commit")
        \/ Overflows(unwrap_or_0(current), req[p].qty) /\ Panic(p)

\* ------------------------------------------------ txn_service::create_outbound
create_outbound(p) ==
  /\ CanCall(p, 1)
  /\ \E item \in Items, from \in Slots, qty \in QtyInputs, op \in OperatorInputs :
       LET r == Request("OUT", item, from, NoSlot, qty, op, NoTxnNo)
           operator_err == require_active_operator_by_id(op)
       IN IF ~InputCase(from, qty, op) THEN FALSE
          ELSE IF qty <= 0 THEN Reject(p, r, "ValidationError")
          ELSE IF operator_err # "none" THEN Reject(p, r, operator_err)
          ELSE Begin(p, r, "out_check")

\* the source-slot test of create_outbound / create_move left out
insufficient_never(current_qty, qty) == FALSE

\* if current_qty < qty { return Err(InsufficientStock) }
insufficient(current_qty, qty) == current_qty < qty

\* get_stock_tx and the InsufficientStock test
create_outbound_check(p) ==
  /\ pc[p] = "out_check"
  /\ LET current_qty ==
           unwrap_or_0(get_stock_tx(tx[p], req[p].item_id, req[p].from_slot_id))
     IN IF insufficient(current_qty, req[p].qty)
        THEN TxFail(p, "InsufficientStock")
        ELSE /\ pc' = [pc EXCEPT ![p] = "out_insert"]
             /\ cur' = [cur EXCEPT ![p] = current_qty]
             /\ UNCHANGED <<db, env, gate, cmd, req, tx, result>>

create_outbound_insert(p) ==
  /\ pc[p] = "out_insert"
  /\ TxInsert(p, TxnRow(new_v4, "OUT", req[p].item_id, req[p].from_slot_id, NoSlot,
                        req[p].qty, NoActual, NoRef, req[p].operator_id),
              "out_stock")

\* next_qty = current_qty: the quantity is not taken off
create_outbound_stock_kept(p) ==
  /\ pc[p] = "out_stock"
  /\ TxStep(p, upsert_stock_tx(tx[p], req[p].item_id, req[p].from_slot_id, cur[p]),
            "commit")

\* upsert_stock_tx(from, next_qty = current_qty - qty)
create_outbound_stock(p) ==
  /\ pc[p] = "out_stock"
  /\ TxStep(p, upsert_stock_tx(tx[p], req[p].item_id, req[p].from_slot_id,
                               cur[p] - req[p].qty),
            "commit")

\* ---------------------------------------------------- txn_service::create_move
\* the operator is looked up before the arguments are validated
create_move_operator_first(p) ==
  /\ CanCall(p, 1)
  /\ \E item \in Items, from \in Slots, to \in Slots, qty \in QtyInputs,
        op \in OperatorInputs :
       LET r == Request("MOVE", item, from, to, qty, op, NoTxnNo)
           operator_err == require_active_operator_by_id(op)
       IN IF ~InputCase(from, qty, op) THEN FALSE
          ELSE IF operator_err # "none" THEN Reject(p, r, operator_err)
          ELSE IF qty <= 0 THEN Reject(p, r, "ValidationError")
          ELSE IF from = to THEN Reject(p, r, "ValidationError")
          ELSE Begin(p, r, "mv_check")

\* validation, operator check, pool.begin()
create_move(p) ==
  /\ CanCall(p, 1)
  /\ \E item \in Items, from \in Slots, to \in Slots, qty \in QtyInputs,
        op \in OperatorInputs :
       LET r == Request("MOVE", item, from, to, qty, op, NoTxnNo)
           operator_err == require_active_operator_by_id(op)
       IN IF ~InputCase(from, qty, op) THEN FALSE
          ELSE IF qty <= 0 THEN Reject(p, r, "ValidationError")
          ELSE IF from = to THEN Reject(p, r, "ValidationError")
          ELSE IF operator_err # "none" THEN Reject(p, r, operator_err)
          ELSE Begin(p, r, "mv_check")

create_move_check(p) ==
  /\ pc[p] = "mv_check"
  /\ LET current_qty ==
           unwrap_or_0(get_stock_tx(tx[p], req[p].item_id, req[p].from_slot_id))
     IN IF insufficient(current_qty, req[p].qty)
        THEN TxFail(p, "InsufficientStock")
        ELSE /\ pc' = [pc EXCEPT ![p] = "mv_insert"]
             /\ cur' = [cur EXCEPT ![p] = current_qty]
             /\ UNCHANGED <<db, env, gate, cmd, req, tx, result>>

create_move_insert(p) ==
  /\ pc[p] = "mv_insert"
  /\ TxInsert(p, TxnRow(new_v4, "MOVE", req[p].item_id, req[p].from_slot_id,
                        req[p].to_slot_id, req[p].qty, NoActual, NoRef,
                        req[p].operator_id),
              "mv_from")

\* upsert_stock_tx(from, from_next = current_qty - qty)
create_move_from(p) ==
  /\ pc[p] = "mv_from"
  /\ TxStep(p, upsert_stock_tx(tx[p], req[p].item_id, req[p].from_slot_id,
                               cur[p] - req[p].qty),
            "mv_to")

\* to_next = qty: the target's current quantity is not added
create_move_to_overwrite(p) ==
  /\ pc[p] = "mv_to"
  /\ TxStep(p, upsert_stock_tx(tx[p], req[p].item_id, req[p].to_slot_id, req[p].qty),
            "commit")

\* get_stock_tx(to), upsert_stock_tx(to, to_next = to_current + qty)
create_move_to(p) ==
  /\ pc[p] = "mv_to"
  /\ LET to_current == get_stock_tx(tx[p], req[p].item_id, req[p].to_slot_id)
         to_next == wrapping_add(unwrap_or_0(to_current), req[p].qty)
     IN \/ TxStep(p, upsert_stock_tx(tx[p], req[p].item_id, req[p].to_slot_id, to_next),
                  "commit")
        \/ Overflows(unwrap_or_0(to_current), req[p].qty) /\ Panic(p)

\* --------------------------------------------------- txn_service::create_count
\* the request carries actual_qty in its qty field and the slot in from_slot_id
create_count(p) ==
  /\ CanCall(p, 2)
  /\ \E item \in Items, slot \in Slots, actual_qty \in ActualInputs,
        op \in OperatorInputs :
       LET r == Request("COUNT", item, slot, NoSlot, actual_qty, op, NoTxnNo)
           operator_err == require_active_operator_by_id(op)
       IN IF ~InputCase(slot, actual_qty, op) THEN FALSE
          ELSE IF actual_qty < 0 THEN Reject(p, r, "ValidationError")
          ELSE IF operator_err # "none" THEN Reject(p, r, operator_err)
          ELSE Begin(p, r, "ct_read")

\* get_stock_tx; current_qty feeds delta = actual_qty - current_qty
create_count_read(p) ==
  /\ pc[p] = "ct_read"
  /\ pc' = [pc EXCEPT ![p] = "ct_count"]
  /\ cur' = [cur EXCEPT ![p] =
               unwrap_or_0(get_stock_tx(tx[p], req[p].item_id, req[p].from_slot_id))]
  /\ UNCHANGED <<db, env, gate, cmd, req, tx, result>>

\* insert_txn(&mut tx, &count_row)
create_count_count(p) ==
  /\ pc[p] = "ct_count"
  /\ TxInsert(p, TxnRow(new_v4, "COUNT", req[p].item_id, req[p].from_slot_id, NoSlot,
                        0, req[p].qty, NoRef, req[p].operator_id),
              "ct_adjust")

\* delta = current_qty - actual_qty: the operands swapped
create_count_adjust_swapped(p) ==
  /\ pc[p] = "ct_adjust"
  /\ TxInsert(p, TxnRow(new_v4, "ADJUST", req[p].item_id, req[p].from_slot_id, NoSlot,
                        cur[p] - req[p].qty, NoActual, NoRef, req[p].operator_id),
              "ct_stock")

\* qty: delta.abs() - the size of the adjustment without its direction
create_count_adjust_abs(p) ==
  /\ pc[p] = "ct_adjust"
  /\ TxInsert(p, TxnRow(new_v4, "ADJUST", req[p].item_id, req[p].from_slot_id, NoSlot,
                        IF req[p].qty >= cur[p] THEN req[p].qty - cur[p]
                        ELSE cur[p] - req[p].qty,
                        NoActual, NoRef, req[p].operator_id),
              "ct_stock")

\* insert_txn(&mut tx, &adjust_row)
create_count_adjust(p) ==
  /\ pc[p] = "ct_adjust"
  /\ TxInsert(p, TxnRow(new_v4, "ADJUST", req[p].item_id, req[p].from_slot_id, NoSlot,
                        req[p].qty - cur[p], NoActual, NoRef, req[p].operator_id),
              "ct_stock")

\* upsert_stock_tx(slot, actual_qty)
create_count_stock(p) ==
  /\ pc[p] = "ct_stock"
  /\ TxStep(p, upsert_stock_tx(tx[p], req[p].item_id, req[p].from_slot_id, req[p].qty),
            "commit")

\* ---------------------------------------------------- txn_service::reverse_txn
\* the row `target` that the call in progress resolved from its txn_no
Target(p) == get_txn_by_no(req[p].txn_no)[1]

\* the test of target.txn_type before has_reversal left out
reverse_txn_any_kind(p) ==
  /\ CanCall(p, 0)
  /\ \E txn_no \in TxnNoInputs, op \in OperatorInputs :
       LET r == Request("REVERSAL", "i1", NoSlot, NoSlot, 0, op, txn_no)
           operator_err == require_active_operator_by_id(op)
           target == get_txn_by_no(txn_no)
       IN IF ~InputCase("s1", txn_no, op) THEN FALSE
          ELSE IF operator_err # "none" THEN Reject(p, r, operator_err)
          ELSE IF target = <<>> THEN Reject(p, r, "NotFound")
          ELSE IF has_reversal(target[1].id) THEN Reject(p, r, "Conflict")
          ELSE Begin(p, r, "rv_delta")

\* the target is looked up before the operator is checked
reverse_txn_target_first(p) ==
  /\ CanCall(p, 0)
  /\ \E txn_no \in TxnNoInputs, op \in OperatorInputs :
       LET r == Request("REVERSAL", "i1", NoSlot, NoSlot, 0, op, txn_no)
           operator_err == require_active_operator_by_id(op)
           target == get_txn_by_no(txn_no)
       IN IF ~InputCase("s1", txn_no, op) THEN FALSE
          ELSE IF target = <<>> THEN Reject(p, r, "NotFound")
          ELSE IF operator_err # "none" THEN Reject(p, r, operator_err)
          ELSE IF target[1].txn_type \in {"REVERSAL", "COUNT"}
               THEN Reject(p, r, "ValidationError")
          ELSE IF has_reversal(target[1].id) THEN Reject(p, r, "Conflict")
          ELSE Begin(p, r, "rv_delta")

\* operator check, target lookup, kind test, has_reversal, pool.begin()
\* (callable on a full ledger: the REVERSAL row may pass the cap by one, so
\* that every row under the cap can be reversed)
reverse_txn(p) ==
  /\ CanCall(p, 0)
  /\ \E txn_no \in TxnNoInputs, op \in OperatorInputs :
       LET r == Request("REVERSAL", "i1", NoSlot, NoSlot, 0, op, txn_no)
           operator_err == require_active_operator_by_id(op)
           target == get_txn_by_no(txn_no)
       IN IF ~InputCase("s1", txn_no, op) THEN FALSE
          ELSE IF operator_err # "none" THEN Reject(p, r, operator_err)
          ELSE IF target = <<>> THEN Reject(p, r, "NotFound")
          ELSE IF target[1].txn_type \in {"REVERSAL", "COUNT"}
               THEN Reject(p, r, "ValidationError")
          ELSE IF has_reversal(target[1].id) THEN Reject(p, r, "Conflict")
          ELSE Begin(p, r, "rv_delta")

\* match target.txn_type: the slot of the first (or only) apply_stock_delta
reverse_slot(target) ==
  CASE target.txn_type = "IN" -> target.to_slot_id
    [] target.txn_type \in {"OUT", "MOVE", "ADJUST"} -> target.from_slot_id
    [] OTHER -> NoSlot

\* every arm subtracts target.qty: OUT and MOVE do not add it back
reverse_delta_negated(target) == -target.qty

\* match target.txn_type: the delta of the first (or only) apply_stock_delta
reverse_delta(target) ==
  IF target.txn_type \in {"OUT", "MOVE"} THEN target.qty ELSE -target.qty

\* match target.txn_type { "IN" | "OUT" | "MOVE" | "ADJUST" | _ }: a missing
\* slot or another type is a ValidationError, else apply_stock_delta
reverse_txn_delta(p) ==
  /\ pc[p] = "rv_delta"
  /\ LET target == Target(p)
         slot == reverse_slot(target)
         delta == reverse_delta(target)
         current_qty == unwrap_or_0(get_stock_tx(tx[p], target.item_id, slot))
     IN IF \/ slot = NoSlot
           \/ target.txn_type = "MOVE" /\ target.to_slot_id = NoSlot
        THEN TxFail(p, "ValidationError")
        ELSE \/ TxStep(p, apply_stock_delta(tx[p], target.item_id, slot, delta),
                       IF target.txn_type = "MOVE" THEN "rv_delta2" ELSE "rv_insert")
             \/ Overflows(current_qty, delta) /\ Panic(p)

\* MOVE: the to_slot is left as it is
reverse_txn_delta2_skipped(p) ==
  /\ pc[p] = "rv_delta2"
  /\ TxStep(p, [err |-> "none", tx |-> tx[p]], "rv_insert")

\* MOVE: the to_slot is taken down to 0 at most, without the stock test
reverse_txn_delta2_clamped(p) ==
  /\ pc[p] = "rv_delta2"
  /\ LET target == Target(p)
         current_qty == unwrap_or_0(get_stock_tx(tx[p], target.item_id,
                                                 target.to_slot_id))
         next_qty == IF current_qty < target.qty THEN 0 ELSE current_qty - target.qty
     IN TxStep(p, upsert_stock_tx(tx[p], target.item_id, target.to_slot_id, next_qty),
               "rv_insert")

\* MOVE: the second apply_stock_delta, on to_slot
reverse_txn_delta2(p) ==
  /\ pc[p] = "rv_delta2"
  /\ LET target == Target(p)
         current_qty == unwrap_or_0(get_stock_tx(tx[p], target.item_id,
                                                 target.to_slot_id))
     IN \/ TxStep(p, apply_stock_delta(tx[p], target.item_id, target.to_slot_id,
                                       -target.qty),
                  "rv_insert")
        \/ Overflows(current_qty, -target.qty) /\ Panic(p)

\* the reversal row references the target but copies neither slots nor qty
reverse_txn_insert_blank(p) ==
  /\ pc[p] = "rv_insert"
  /\ LET target == Target(p)
     IN TxInsert(p, TxnRow(new_v4, "REVERSAL", target.item_id, NoSlot, NoSlot, 0,
                           NoActual, target.id, req[p].operator_id),
                 "commit")

\* ref_txn_id: Some(id) - the reversal row references itself instead of its
\* target
reverse_txn_insert_selfref(p) ==
  /\ pc[p] = "rv_insert"
  /\ LET target == Target(p)
         id == new_v4
     IN TxInsert(p, TxnRow(id, "REVERSAL", target.item_id, target.from_slot_id,
                           target.to_slot_id, target.qty, NoActual, id,
                           req[p].operator_id),
                 "commit")

\* insert_txn(&mut tx, &reversal_row)
reverse_txn_insert(p) ==
  /\ pc[p] = "rv_insert"
  /\ LET target == Target(p)
     IN TxInsert(p, TxnRow(new_v4, "REVERSAL", target.item_id, target.from_slot_id,
                           target.to_slot_id, target.qty, NoActual, target.id,
                           req[p].operator_id),
                 "commit")

\* ------------------------------------------------------ commit and failures
\* tx.commit().await?; Ok(txn_no).  Inside import_txns the row's result is
\* discarded and the loop goes on to the next record.
commit(p) ==
  /\ pc[p] = "commit"
  /\ Publish(p)
  /\ tx' = [tx EXCEPT ![p] = NoTx]
  /\ IF cmd[p] = "import_txns"
     THEN /\ pc' = [pc EXCEPT ![p] = "locked"]
          /\ req' = [req EXCEPT ![p] = NoReq]
          /\ cur' = [cur EXCEPT ![p] = 0]
          /\ UNCHANGED result
     ELSE /\ pc' = [pc EXCEPT ![p] = "audit"]
          /\ result' = [result EXCEPT ![p] = Ok(tx[p].rows[1].txn_no)]
          /\ UNCHANGED <<req, cur>>
  /\ UNCHANGED <<env, gate, cmd>>

\* a statement of the open transaction, or its commit, fails (sqlx::Error -> DbError)
storage_failure(p) ==
  /\ pc[p] \in TxPcs
  /\ TxFail(p, "DbError")

\* a read through the pool before the transaction, or pool.begin(), fails
pool_failure(p) ==
  /\ pc[p] = "locked"
  /\ cmd[p] \in {"txn", "import_txns"}
  /\ Reject(p, NoReq, "DbError")

\* ------------------------------------------ import_export_service::import_txns
\* a record that does not parse, names no operator or carries an unknown type
import_txns_reject(p) ==
  /\ pc[p] = "locked"
  /\ cmd[p] = "import_txns"
  /\ \E code \in {"ValidationError", "NotFound", "IoError"} : Reject(p, NoReq, code)

\* reader.records() is exhausted: Ok(())
import_txns_eof(p) ==
  /\ pc[p] = "locked"
  /\ cmd[p] = "import_txns"
  /\ pc' = [pc EXCEPT ![p] = "audit"]
  /\ result' = [result EXCEPT ![p] = Ok(NoTxnNo)]
  /\ UNCHANGED <<db, env, gate, cmd, req, cur, tx>>

\* ------------------------------------------------ command_guard::run_with_audit
\* a failed write_audit after a success also takes back what the operation
\* committed last
run_with_audit_undoes(p) ==
  /\ pc[p] = "audit"
  /\ \E audit_ok \in BOOLEAN :
       /\ result' = [result EXCEPT ![p] =
                       IF ~audit_ok /\ @.code = "Ok" THEN Err("DbError") ELSE @]
       /\ IF ~audit_ok /\ result[p].code = "Ok" /\ Len(ledger) > 0
          THEN /\ ledger' = SubSeq(ledger, 1, Len(ledger) - 1)
               /\ stock' = stock_before[Len(ledger)]
               /\ stock_before' = SubSeq(stock_before, 1, Len(ledger) - 1)
          ELSE UNCHANGED db
  /\ pc' = [pc EXCEPT ![p] = "ret"]
  /\ UNCHANGED <<env, gate, cmd, req, cur, tx>>

\* what write_audit returns: Ok ("none"), or the AppError made from the
\* sqlx::Error of insert_audit_log (From<sqlx::Error>: DbError)
WriteAuditOutcomes == {"none", "DbError"}

\* command_guard::map_audit_error
map_audit_error(code) == IF code = "IoError" THEN "IoError" ELSE "DbError"

\* a failed audit write replaces whatever the operation returned
with_audit_always(r, err) ==
  IF err # "none"
  THEN [Err(map_audit_error(err)) EXCEPT !.audit = "failed"]
  ELSE [r EXCEPT !.audit = "written"]

\* the tail of run_with_audit: if let Err(err) = write_audit(..) { if
\* result.is_ok() { return Err(map_audit_error(err)) } } result
with_audit(r, err) ==
  IF err # "none" /\ r.code = "Ok"
  THEN [Err(map_audit_error(err)) EXCEPT !.audit = "failed"]
  ELSE [r EXCEPT !.audit = IF err = "none" THEN "written" ELSE "failed"]

\* write_audit after the operation; its failure replaces an Ok result
run_with_audit(p) ==
  /\ pc[p] = "audit"
  /\ \E err \in WriteAuditOutcomes :
       result' = [result EXCEPT ![p] = with_audit(@, err)]
  /\ pc' = [pc EXCEPT ![p] = "ret"]
  /\ UNCHANGED <<db, env, gate, cmd, req, cur, tx>>

\* the command returns with the guard forgotten (mem::forget) instead of dropped
drop_guard_leaked(p, next) ==
  /\ pc[p] = "ret"
  /\ pc' = [pc EXCEPT ![p] = next]
  /\ cmd' = [cmd EXCEPT ![p] = "none"]
  /\ req' = [req EXCEPT ![p] = NoReq]
  /\ cur' = [cur EXCEPT ![p] = 0]
  /\ result' = [result EXCEPT ![p] = NoResult]
  /\ UNCHANGED <<db, env, gate, tx>>

\* the command function returns: _guard goes out of scope and is dropped
drop_guard_to(p, next) ==
  /\ pc[p] = "ret"
  /\ write_lock' = NoProc
  /\ pc' = [pc EXCEPT ![p] = next]
  /\ cmd' = [cmd EXCEPT ![p] = "none"]
  /\ req' = [req EXCEPT ![p] = NoReq]
  /\ cur' = [cur EXCEPT ![p] = 0]
  /\ result' = [result EXCEPT ![p] = NoResult]
  /\ UNCHANGED <<db, env, migrating, tx>>

drop_guard(p) == drop_guard_to(p, "idle")

\* ------------------------------------------------ system_cmd::set_storage_root
\* require_admin_by_id(actor)? - its Err returns at once, the flag untouched -
\* then *migrating = true
set_storage_root_begin(p) ==
  /\ pc[p] = "locked"
  /\ cmd[p] = "set_storage_root"
  /\ \E admin \in BOOLEAN :
       IF admin
       THEN /\ migrating' = TRUE
            /\ pc' = [pc EXCEPT ![p] = "migrate"]
            /\ UNCHANGED result
       ELSE /\ pc' = [pc EXCEPT ![p] = "ret"]
            /\ result' = [result EXCEPT ![p] = Err("Forbidden")]
            /\ UNCHANGED migrating
  /\ UNCHANGED <<db, env, write_lock, cmd, req, cur, tx>>

\* `result?` right after run_with_audit: an Err returns before the flag is
\* cleared
set_storage_root_end_early(p) ==
  /\ pc[p] = "migrate"
  /\ \E code \in {"Ok", "IoError"}, err \in WriteAuditOutcomes :
       /\ result' = [result EXCEPT ![p] = with_audit(Err(code), err)]
       /\ migrating' = (with_audit(Err(code), err).code # "Ok")
  /\ pc' = [pc EXCEPT ![p] = "ret"]
  /\ UNCHANGED <<db, env, write_lock, cmd, req, cur, tx>>

\* let result = run_with_audit(system_service::set_storage_root).await (the
\* relocation succeeds or fails, then the audit write succeeds or fails);
\* *migrating = false; result
set_storage_root_end(p) ==
  /\ pc[p] = "migrate"
  /\ \E code \in {"Ok", "IoError"}, err \in WriteAuditOutcomes :
       result' = [result EXCEPT ![p] = with_audit(Err(code), err)]
  /\ migrating' = FALSE
  /\ pc' = [pc EXCEPT ![p] = "ret"]
  /\ UNCHANGED <<db, env, write_lock, cmd, req, cur, tx>>

\* ------------------------------------------------------------ specification
Next ==
  \E p \in Procs :
    \/ ensure_not_migrating(p)
    \/ return_conflict(p)
    \/ lock(p)
    \/ set_storage_root_lock(p)
    \/ create_inbound(p)
    \/ create_inbound_insert(p)
    \/ create_inbound_stock(p)
    \/ create_outbound(p)
    \/ create_outbound_check(p)
    \/ create_outbound_insert(p)
    \/ create_outbound_stock(p)
    \/ create_move(p)
    \/ create_move_check(p)
    \/ create_move_insert(p)
    \/ create_move_from(p)
    \/ create_move_to(p)
    \/ create_count(p)
    \/ create_count_read(p)
    \/ create_count_count(p)
    \/ create_count_adjust(p)
    \/ create_count_stock(p)
    \/ reverse_txn(p)
    \/ reverse_txn_delta(p)
    \/ reverse_txn_delta2(p)
    \/ reverse_txn_insert(p)
    \/ commit(p)
    \/ storage_failure(p)
    \/ pool_failure(p)
    \/ import_txns_reject(p)
    \/ import_txns_eof(p)
    \/ run_with_audit(p)
    \/ drop_guard(p)
    \/ set_storage_root_begin(p)
    \/ set_storage_root_end(p)

Spec == Init /\ [][Next]_vars

\* ------------------------------------------------------ fair scheduling
\* the scenario of the fair specification: movements are created while the
\* ledger holds fewer than FairLedger rows, reversals while it holds at most
\* FairLedger rows
Creates == Len(ledger) < FairLedger
Reverses == Len(ledger) <= FairLedger

\* the steps of a command of task p that is past its lock().await: none of
\* them waits for another task
Run(p) ==
  \/ Creates /\ create_inbound(p)
  \/ create_inbound_insert(p)
  \/ create_inbound_stock(p)
  \/ Creates /\ create_outbound(p)
  \/ create_outbound_check(p)
  \/ create_outbound_insert(p)
  \/ create_outbound_stock(p)
  \/ Creates /\ create_move(p)
  \/ create_move_check(p)
  \/ create_move_insert(p)
  \/ create_move_from(p)
  \/ create_move_to(p)
  \/ Creates /\ create_count(p)
  \/ create_count_read(p)
  \/ create_count_count(p)
  \/ create_count_adjust(p)
  \/ create_count_stock(p)
  \/ Reverses /\ reverse_txn(p)
  \/ reverse_txn_delta(p)
  \/ reverse_txn_delta2(p)
  \/ reverse_txn_insert(p)
  \/ commit(p)
  \/ storage_failure(p)
  \/ pool_failure(p)
  \/ import_txns_reject(p)
  \/ import_txns_eof(p)
  \/ run_with_audit(p)
  \/ drop_guard(p)
  \/ set_storage_root_begin(p)
  \/ set_storage_root_end(p)

NextFair ==
  \E p \in Procs :
    \/ ensure_not_migrating(p)
    \/ return_conflict(p)
    \/ lock(p)
    \/ set_storage_root_lock(p)
    \/ Run(p)

\* the tokio runtime polls every task that is ready (weak fairness of the
\* running command, whose steps wait for no other task); tokio::sync::Mutex
\* queues its waiters first-in first-out, so a waiter is not passed over for
\* ever (strong fairness of lock).  Nothing obliges a client to invoke a
\* command, and set_storage_root may be invoked or not.
Fairness ==
  \A p \in Procs : WF_vars(Run(p)) /\ SF_vars(lock(p))

SpecFair == Init /\ [][NextFair]_vars /\ Fairness

\* ------------------------------------------------------------ read commands
\* txn_cmd::list_txns, stock_cmd::list_stock_by_slot and list_stock_by_item:
\* require_role_by_id (rbac_enabled = "0": passes), then run_with_audit around
\* two statements sent to the pool one after the other.  Neither
\* ensure_not_migrating nor write_lock appears in them.
ReadPcs == {"ls_list", "lt_count", "listed"}

\* a statement that reads what the open transaction of the guard's holder
\* has written so far (read uncommitted)
pool_read_uncommitted ==
  IF write_lock = NoProc THEN [items |-> stock, rows |-> ledger]
  ELSE [items |-> [k \in DOMAIN stock \cup DOMAIN tx[write_lock].writes |->
                     IF k \in DOMAIN tx[write_lock].writes
                     THEN tx[write_lock].writes[k] ELSE stock[k]],
        rows |-> ledger \o tx[write_lock].rows]

\* one statement through the pool, on a connection of its own: it reads the
\* committed tables as they are at one instant
pool_read == [items |-> stock, rows |-> ledger]

ReadStep(p, from, to, v) ==
  /\ pc[p] = from
  /\ pc' = [pc EXCEPT ![p] = to]
  /\ view' = [view EXCEPT ![p] = v]
  /\ UNCHANGED <<db, operator, clock, order, reader, gate, cmd, req, cur, tx, result>>

\* stock_query_repo::count_stock_by_slot_filtered / count_stock_by_item_filtered
count_stock_by_slot_filtered(p) ==
  \E what \in {"stock_by_slot", "stock_by_item"} :
    ReadStep(p, "idle", "ls_list",
             [NoView EXCEPT !.what = what,
                            !.total = Cardinality(DOMAIN pool_read.items)])

\* stock_query_repo::list_stock_by_slot / list_stock_by_item_filtered: the
\* stock rows, each with the operator of the latest txn row of its item
list_stock_by_slot(p) ==
  ReadStep(p, "ls_list", "listed",
           [view[p] EXCEPT !.items = pool_read.items, !.rows = pool_read.rows])

\* a list_txns that goes through ensure_not_migrating and waits for the guard
list_txns_gated(p) ==
  /\ ~migrating
  /\ write_lock = NoProc
  /\ ReadStep(p, "idle", "lt_count",
              [NoView EXCEPT !.what = "txns", !.rows = pool_read.rows])

\* txn_repo::list_txns
list_txns(p) ==
  ReadStep(p, "idle", "lt_count",
           [NoView EXCEPT !.what = "txns", !.rows = pool_read.rows])

\* txn_repo::count_txns_filtered
count_txns_filtered(p) ==
  ReadStep(p, "lt_count", "listed",
           [view[p] EXCEPT !.total = Len(pool_read.rows)])

\* write_audit and the return of the read command
return_view(p) == ReadStep(p, "listed", "idle", NoView)

\* the commands of the fair scenario together with the read commands
NextRead ==
  \E p \in Procs :
    \/ ensure_not_migrating(p)
    \/ return_conflict(p)
    \/ lock(p)
    \/ set_storage_root_lock(p)
    \/ Run(p)
    \/ count_stock_by_slot_filtered(p)
    \/ list_stock_by_slot(p)
    \/ list_txns(p)
    \/ count_txns_filtered(p)
    \/ return_view(p)

SpecRead == Init /\ [][NextRead]_vars

\* --------------------------- scenario: NumLaunch concurrent Inbound(qty = 1)
\* txn_cmd::create_inbound takes the guard
create_inbound_lock(p) ==
  /\ pc[p] = "wait"
  /\ acquire(p)
  /\ pc' = [pc EXCEPT ![p] = "locked"]
  /\ cmd' = [cmd EXCEPT ![p] = "txn"]
  /\ UNCHANGED <<db, env, migrating, req, cur, tx, result>>

\* txn_service::create_inbound(i1, s1, 1) by the active operator
create_inbound_one(p) ==
  /\ pc[p] = "locked"
  /\ cmd[p] = "txn"
  /\ Begin(p, Request("IN", "i1", NoSlot, "s1", 1, "op1", NoTxnNo), "in_insert")

\* the command returns and the task is not launched again
finish(p) == drop_guard_to(p, "done")

NextInbound ==
  \E p \in Launch :
    \/ ensure_not_migrating(p)
    \/ create_inbound_lock(p)
    \/ create_inbound_one(p)
    \/ create_inbound_insert(p)
    \/ create_inbound_stock(p)
    \/ commit(p)
    \/ run_with_audit(p)
    \/ finish(p)

SpecInbound == Init /\ [][NextInbound]_vars

\* ------------------ scenario: NumLaunch Inbound commands under a running clock
OccurredInputs == 0..MaxClock

\* the system clock advances (it never goes back)
tick ==
  /\ clock < MaxClock
  /\ clock' = clock + 1
  /\ UNCHANGED <<db, operator, view, order, reader, gate, pc, cmd, req, cur, tx, result>>

\* txn_cmd::create_inbound takes the guard; the history notes that this is
\* the next acquisition
lock_in_order(p) ==
  /\ pc[p] = "wait"
  /\ acquire(p)
  /\ pc' = [pc EXCEPT ![p] = "locked"]
  /\ cmd' = [cmd EXCEPT ![p] = "txn"]
  /\ order' = [order EXCEPT !.next = @ + 1, !.ticket = Put(@, p, order.next + 1)]
  /\ UNCHANGED <<db, operator, clock, view, reader, migrating, req, cur, tx, result>>

\* txn_service::create_inbound(i1, s1, 1, occurred_at) by the active operator:
\* occurred_at is whatever the caller passes, now is read from the clock
create_inbound_at(p) ==
  /\ pc[p] = "locked"
  /\ cmd[p] = "txn"
  /\ \E occurred_at \in OccurredInputs :
       Begin(p, [Request("IN", "i1", NoSlot, "s1", 1, "op1", NoTxnNo)
                   EXCEPT !.occurred_at = occurred_at],
             "in_insert")

\* tx.commit().await?; Ok(txn_no); the history notes which acquisition the
\* committed rows belong to
commit_in_order(p) ==
  /\ pc[p] = "commit"
  /\ Publish(p)
  /\ tx' = [tx EXCEPT ![p] = NoTx]
  /\ pc' = [pc EXCEPT ![p] = "audit"]
  /\ result' = [result EXCEPT ![p] = Ok(tx[p].rows[1].txn_no)]
  /\ order' = [order EXCEPT !.of = @ \o [k \in 1..Len(tx[p].rows) |-> order.ticket[p]]]
  /\ UNCHANGED <<operator, clock, view, reader, gate, cmd, req, cur>>

NextOrder ==
  \/ tick
  \/ \E p \in Launch :
       \/ ensure_not_migrating(p)
       \/ lock_in_order(p)
       \/ create_inbound_at(p)
       \/ create_inbound_insert(p)
       \/ create_inbound_stock(p)
       \/ commit_in_order(p)
       \/ run_with_audit(p)
       \/ finish(p)

SpecOrder == Init /\ [][NextOrder]_vars

\* ------------------------- scenario: operators switched on and off
StatusInputs == {"active", "inactive", "retired"}

\* a set_operator_status that does not take the guard before it goes on
set_operator_status_lock_free(p) ==
  /\ pc[p] = "wait"
  /\ pc' = [pc EXCEPT ![p] = "locked"]
  /\ cmd' = [cmd EXCEPT ![p] = "set_operator_status"]
  /\ UNCHANGED <<db, env, gate, req, cur, tx, result>>

\* operator_cmd::set_operator_status after ensure_not_migrating:
\* let _guard = state.write_lock.lock().await
set_operator_status_lock(p) ==
  /\ pc[p] = "wait"
  /\ acquire(p)
  /\ pc' = [pc EXCEPT ![p] = "locked"]
  /\ cmd' = [cmd EXCEPT ![p] = "set_operator_status"]
  /\ UNCHANGED <<db, env, migrating, req, cur, tx, result>>

\* require_admin_by_id(actor)? (its Err returns at once, before run_with_audit),
\* then operator_repo::set_operator_status inside run_with_audit: a status
\* other than active / inactive is a ValidationError, rows_affected() = 0 is
\* NotFound, a failed UPDATE is DbError
set_operator_status(p) ==
  /\ pc[p] = "locked"
  /\ cmd[p] = "set_operator_status"
  /\ \E admin \in BOOLEAN, id \in OperatorInputs, status \in StatusInputs,
        executed \in BOOLEAN :
       IF ~admin
       THEN /\ pc' = [pc EXCEPT ![p] = "ret"]
            /\ result' = [result EXCEPT ![p] = Err("Forbidden")]
            /\ UNCHANGED operator
       ELSE /\ pc' = [pc EXCEPT ![p] = "audit"]
            /\ IF status \notin {"active", "inactive"}
               THEN /\ result' = [result EXCEPT ![p] = Err("ValidationError")]
                    /\ UNCHANGED operator
               ELSE IF ~executed
               THEN /\ result' = [result EXCEPT ![p] = Err("DbError")]
                    /\ UNCHANGED operator
               ELSE IF id \notin DOMAIN operator
               THEN /\ result' = [result EXCEPT ![p] = Err("NotFound")]
                    /\ UNCHANGED operator
               ELSE /\ result' = [result EXCEPT ![p] = Ok(NoTxnNo)]
                    /\ operator' = [operator EXCEPT ![id] = status]
  /\ UNCHANGED <<db, clock, view, order, reader, gate, cmd, req, cur, tx>>

\* the commands of the fair scenario together with set_operator_status
NextOperator ==
  \E p \in Procs :
    \/ ensure_not_migrating(p)
    \/ return_conflict(p)
    \/ lock(p)
    \/ set_storage_root_lock(p)
    \/ Run(p)
    \/ set_operator_status_lock(p)
    \/ set_operator_status(p)

SpecOperator == Init /\ [][NextOperator]_vars

\* --------------------- scenario: import_txns reading the records of a file
MaxFile == 3

\* one record of the file, as import_txns has parsed it
FileRecord(kind, from, to, qty) ==
  [kind |-> kind, item_id |-> "i1", from_slot_id |-> from, to_slot_id |-> to,
   qty |-> qty, operator_id |-> "op1", txn_no |-> NoTxnNo]

\* the records a file is made of: an Inbound of 1, an Outbound of 2, a Count
\* of 0 and a record that does not parse or carries an unknown type
Records ==
  {FileRecord("IN", NoSlot, "s1", 1), FileRecord("OUT", "s1", NoSlot, 2),
   FileRecord("COUNT", "s1", NoSlot, 0), FileRecord("bad", NoSlot, NoSlot, 0)}
Files == UNION {[1..n -> Records] : n \in 1..MaxFile}

\* the arguments import_txns passes to the txn_service call of a record
AsRequest(rec) ==
  Request(rec.kind, rec.item_id, rec.from_slot_id, rec.to_slot_id, rec.qty,
          rec.operator_id, rec.txn_no)

\* ledger rows the txn_service call of a record inserts
RowsOf(rec) == IF rec.kind = "COUNT" THEN 2 ELSE IF rec.kind = "bad" THEN 0 ELSE 1

RECURSIVE RowsOfFirst(_, _)
RowsOfFirst(f, n) == IF n = 0 THEN 0 ELSE RowsOfFirst(f, n - 1) + RowsOf(f[n])

\* how far `for record in reader.records()` has come: the records whose
\* service call has returned Ok, i.e. whose rows were committed since the
\* command took the guard (a call that fails ends the loop)
Consumed ==
  Cardinality({n \in 1..Len(reader.records) :
                 /\ RowsOfFirst(reader.records, n) <= Len(ledger) - reader.base
                 /\ \A k \in 1..n : reader.records[k].kind # "bad"})

\* data_cmd::import_txns takes the guard (require_admin_by_id with
\* rbac_enabled = "0" passes) and import_export_service::import_txns opens
\* the file; the files drawn fit under the cap on ledger rows
import_txns_lock(p) ==
  /\ pc[p] = "wait"
  /\ acquire(p)
  /\ pc' = [pc EXCEPT ![p] = "locked"]
  /\ cmd' = [cmd EXCEPT ![p] = "import_txns"]
  /\ \E f \in Files :
       /\ Len(ledger) + RowsOfFirst(f, Len(f)) <= MaxLedger
       /\ reader' = [records |-> f, base |-> Len(ledger)]
  /\ UNCHANGED <<db, operator, clock, view, order, migrating, req, cur, tx, result>>

\* the loop takes whichever record of the file, not the next one
import_txns_record_any(p) ==
  /\ pc[p] = "locked"
  /\ cmd[p] = "import_txns"
  /\ Consumed < Len(reader.records)
  /\ \E i \in 1..Len(reader.records) :
       LET rec == reader.records[i]
       IN \/ rec.kind = "IN" /\ create_inbound(p) /\ req'[p] = AsRequest(rec)
          \/ rec.kind = "OUT" /\ create_outbound(p) /\ req'[p] = AsRequest(rec)
          \/ rec.kind = "COUNT" /\ create_count(p) /\ req'[p] = AsRequest(rec)
          \/ rec.kind = "bad" /\ import_txns_reject(p)

\* the body of `for record in reader.records()` for the next record: match
\* txn_type { "IN" | "OUT" | "COUNT" => txn_service::create_*(..).await?, a
\* record that does not parse or another type => return Err }
import_txns_record(p) ==
  /\ pc[p] = "locked"
  /\ cmd[p] = "import_txns"
  /\ Consumed < Len(reader.records)
  /\ LET rec == reader.records[Consumed + 1]
     IN \/ rec.kind = "IN" /\ create_inbound(p) /\ req'[p] = AsRequest(rec)
        \/ rec.kind = "OUT" /\ create_outbound(p) /\ req'[p] = AsRequest(rec)
        \/ rec.kind = "COUNT" /\ create_count(p) /\ req'[p] = AsRequest(rec)
        \/ rec.kind = "bad" /\ import_txns_reject(p)

\* reader.records() is exhausted after the last record: Ok(())
import_txns_done(p) ==
  /\ Consumed = Len(reader.records)
  /\ import_txns_eof(p)

NextImport ==
  \E p \in Procs :
    \/ ensure_not_migrating(p)
    \/ import_txns_lock(p)
    \/ import_txns_record(p)
    \/ create_inbound_insert(p)
    \/ create_inbound_stock(p)
    \/ create_outbound_check(p)
    \/ create_outbound_insert(p)
    \/ create_outbound_stock(p)
    \/ create_count_read(p)
    \/ create_count_count(p)
    \/ create_count_adjust(p)
    \/ create_count_stock(p)
    \/ commit(p)
    \/ storage_failure(p)
    \/ import_txns_done(p)
    \/ run_with_audit(p)
    \/ drop_guard(p)

SpecImport == Init /\ [][NextImport]_vars

\* ------------------------------------------------------- ledger arithmetic
\* signed effect of a non-reversal row on the pair (item, slot)
BaseEffect(r, item, slot) ==
  IF r.item_id # item THEN 0
  ELSE CASE r.txn_type = "IN" -> IF r.to_slot_id = slot THEN r.qty ELSE 0
         [] r.txn_type = "OUT" -> IF r.from_slot_id = slot THEN -r.qty ELSE 0
         [] r.txn_type = "MOVE" ->
              (IF r.to_slot_id = slot THEN r.qty ELSE 0)
              - (IF r.from_slot_id = slot THEN r.qty ELSE 0)
         [] r.txn_type = "ADJUST" -> IF r.from_slot_id = slot THEN r.qty ELSE 0
         [] OTHER -> 0

\* the committed row a REVERSAL row references
Referenced(l, r) == l[CHOOSE k \in 1..Len(l) : l[k].id = r.ref_txn_id]

\* signed effect of any row of ledger l: a REVERSAL inverts its target's
Effect(l, r, item, slot) ==
  IF r.txn_type = "REVERSAL" THEN -BaseEffect(Referenced(l, r), item, slot)
  ELSE BaseEffect(r, item, slot)

RECURSIVE SumEffects(_, _, _, _)
SumEffects(l, n, item, slot) ==
  IF n = 0 THEN 0
  ELSE SumEffects(l, n - 1, item, slot) + Effect(l, l[n], item, slot)

\* position in the ledger of the committed row with this id
PosOf(id) == CHOOSE k \in 1..Len(ledger) : ledger[k].id = id

Changed == ledger' # ledger \/ stock' # stock
SameQty(st1, st2) == \A k \in Pairs : StockQty(st1, k[1], k[2]) = StockQty(st2, k[1], k[2])

\* ------------------------------------------------------------------ claims
\* C1: in every committed state the stock quantity of every (item, slot)
\* pair equals the signed sum of the effects of all ledger rows: IN and the
\* to-side of MOVE add qty, OUT and the from-side of MOVE subtract it, ADJUST
\* adds its signed qty, COUNT adds 0, REVERSAL adds the inverse of the effect
\* of the row it references.
C1_StockEqualsLedgerSum ==
  \A k \in Pairs :
    StockQty(stock, k[1], k[2]) = SumEffects(ledger, Len(ledger), k[1], k[2])

\* a ledger holding a MOVE, an ADJUST and a REVERSAL
C1_Witness ==
  /\ \E k \in 1..Len(ledger) : ledger[k].txn_type = "REVERSAL"
  /\ \E k \in 1..Len(ledger) : ledger[k].txn_type \in {"MOVE", "OUT"}
  /\ \E k \in Pairs : StockQty(stock, k[1], k[2]) > 0

\* C2: every committed stock row has qty >= 0, and upsert_stock_tx answers a
\* negative qty with ValidationError and leaves the transaction as it was.
NegativeQtys == (-MaxQty)..(-1)
C2_StockNeverNegative ==
  /\ \A k \in DOMAIN stock : stock[k] >= 0
  /\ \A p \in Procs, k \in Pairs, q \in NegativeQtys :
       upsert_stock_tx(tx[p], k[1], k[2], q) = [err |-> "ValidationError", tx |-> tx[p]]

\* a request was refused for lack of stock while a row rests at quantity 0
C2_Witness ==
  /\ \E p \in Procs : result[p].code = "InsufficientStock"
  /\ \E k \in DOMAIN stock : stock[k] = 0

\* the step in which the service call of task p commits and returns Ok
Succeeds(p) ==
  /\ pc[p] = "commit"
  /\ \/ pc'[p] = "audit" /\ result'[p].code = "Ok"
     \/ pc'[p] = "locked"

\* the step in which the service call of task p returns an error
Fails(p) ==
  /\ pc[p] \in TxPcs \cup {"locked"}
  /\ pc'[p] = "audit"
  /\ result'[p].code # "Ok"

\* rows of the stock table other than those of the pairs in ks are untouched
OthersUntouched(ks) ==
  \A k \in Pairs \ ks :
    /\ (k \in DOMAIN stock') = (k \in DOMAIN stock)
    /\ k \in DOMAIN stock => stock'[k] = stock[k]

\* the committed state changes by the whole effect of the call of task p
WholeEffect(p) ==
  LET r == req[p]
      n == Len(ledger)
      last == ledger'[Len(ledger')]
  IN /\ pc[p] = "commit"
     /\ Len(ledger') > n
     /\ SubSeq(ledger', 1, n) = ledger
     /\ CASE r.kind = "COUNT" ->
               /\ Len(ledger') = n + 2
               /\ ledger'[n + 1].txn_type = "COUNT"
               /\ ledger'[n + 2].txn_type = "ADJUST"
               /\ StockQty(stock', r.item_id, r.from_slot_id) = r.qty
          [] r.kind = "MOVE" ->
               /\ Len(ledger') = n + 1
               /\ last.txn_type = "MOVE"
               /\ StockQty(stock', r.item_id, r.from_slot_id)
                    = StockQty(stock, r.item_id, r.from_slot_id) - r.qty
               /\ StockQty(stock', r.item_id, r.to_slot_id)
                    = StockQty(stock, r.item_id, r.to_slot_id) + r.qty
          [] r.kind = "IN" ->
               /\ Len(ledger') = n + 1
               /\ last.txn_type = "IN"
               /\ StockQty(stock', r.item_id, r.to_slot_id)
                    = StockQty(stock, r.item_id, r.to_slot_id) + r.qty
          [] r.kind = "OUT" ->
               /\ Len(ledger') = n + 1
               /\ last.txn_type = "OUT"
               /\ StockQty(stock', r.item_id, r.from_slot_id)
                    = StockQty(stock, r.item_id, r.from_slot_id) - r.qty
          [] r.kind = "REVERSAL" ->
               /\ Len(ledger') = n + 1
               /\ last.txn_type = "REVERSAL"
               /\ \A k \in Pairs :
                    StockQty(stock', k[1], k[2])
                      = StockQty(stock, k[1], k[2]) - BaseEffect(Target(p), k[1], k[2])
          [] OTHER -> FALSE

\* C3: every movement operation is all-or-nothing: a service call that
\* returns an error leaves the committed ledger and stock as they were, and
\* the committed state only ever changes by the whole effect of one call
\* (Count: both rows and the stock row; Move: the row and both slots).
C3_AllOrNothing ==
  [][ /\ \A p \in Procs : Fails(p) => ~Changed
      /\ Changed => \E p \in Procs : WholeEffect(p) ]_vars

\* a Count or Move failed on a storage error after its transaction was opened
C3_Witness ==
  \E p \in Procs :
    /\ pc[p] = "audit"
    /\ req[p].kind \in {"COUNT", "MOVE"}
    /\ result[p].code = "DbError"
    /\ Len(ledger) > 0

\* C4: create_outbound and create_move asking for more than the source pair
\* holds (absent row = 0) fail with InsufficientStock (a storage failure of
\* the read aside) without appending a row or touching a stock row, and no
\* such call ever gets past the test.
PastCheck == {"out_insert", "out_stock", "mv_insert", "mv_from", "mv_to", "commit"}
C4_InsufficientStockRefused ==
  [][ \A p \in Procs :
        /\ ( /\ pc[p] \in {"out_check", "mv_check"}
             /\ req[p].qty > StockQty(stock, req[p].item_id, req[p].from_slot_id)
             /\ pc'[p] # pc[p] )
           => /\ pc'[p] = "audit"
              /\ result'[p].code \in {"InsufficientStock", "DbError"}
              /\ ledger' = ledger
              /\ stock' = stock
        /\ ( /\ pc[p] = "out_check" \/ pc[p] = "mv_check"
             /\ pc'[p] = "audit"
             /\ result'[p].code = "InsufficientStock" )
           => req[p].qty > StockQty(stock, req[p].item_id, req[p].from_slot_id)
        /\ (pc'[p] \in PastCheck /\ req'[p].kind \in {"OUT", "MOVE"})
           => req'[p].qty <= StockQty(stock', req'[p].item_id, req'[p].from_slot_id) ]_vars

\* an Outbound or Move was refused although the source holds stock
C4_Witness ==
  \E p \in Procs :
    /\ pc[p] = "audit"
    /\ req[p].kind \in {"OUT", "MOVE"}
    /\ result[p].code = "InsufficientStock"
    /\ StockQty(stock, req[p].item_id, req[p].from_slot_id) > 0

\* C5: no two REVERSAL rows of the committed ledger share a ref_txn_id.
C5_AtMostOneReversal ==
  \A j, k \in 1..Len(ledger) :
    ( /\ ledger[j].txn_type = "REVERSAL"
      /\ ledger[k].txn_type = "REVERSAL"
      /\ ledger[j].ref_txn_id = ledger[k].ref_txn_id ) => j = k

\* import_txns was refused a second reversal of an already reversed row
C5_Witness ==
  \E p \in Procs :
    /\ cmd[p] = "import_txns"
    /\ req[p].kind = "REVERSAL"
    /\ result[p].code = "Conflict"
    /\ \E k \in 1..Len(ledger) :
         ledger[k].txn_type = "REVERSAL" /\ ledger[k].ref_txn_id = Target(p).id

\* the committed ledger holds a REVERSAL row referencing the row with this id
Reversed(id) ==
  \E k \in 1..Len(ledger) :
    ledger[k].txn_type = "REVERSAL" /\ ledger[k].ref_txn_id = id

\* a reverse_txn by an active operator on an already reversed row returns
\* Conflict and changes nothing
SecondReversalConflicts(p) ==
  ( /\ pc[p] = "locked"
    /\ pc'[p] # "locked"
    /\ req'[p].kind = "REVERSAL"
    /\ req'[p].operator_id \in DOMAIN operator
    /\ operator[req'[p].operator_id] = "active"
    /\ get_txn_by_no(req'[p].txn_no) # <<>>
    /\ Reversed(get_txn_by_no(req'[p].txn_no)[1].id) )
  => /\ pc'[p] = "audit"
     /\ result'[p].code = "Conflict"
     /\ ledger' = ledger
     /\ stock' = stock

\* C6 as stated: the first reverse_txn(M) of a reversible M succeeds (a
\* storage failure aside) and leaves the stock levels that held before M was
\* applied; a second reverse_txn(M) fails with Conflict and changes nothing.
C6_Original ==
  [][ \A p \in Procs :
        /\ (pc[p] \in {"rv_delta", "rv_delta2"} /\ pc'[p] = "audit")
           => result'[p].code = "DbError"
        /\ (Succeeds(p) /\ req[p].kind = "REVERSAL")
           => SameQty(stock', stock_before[PosOf(Target(p).id)])
        /\ SecondReversalConflicts(p) ]_vars

\* C6 amended: the first reverse_txn(M) of a reversible M by an active
\* operator succeeds unless its inverse effect would drive a stock level
\* negative or past the largest integer (then InsufficientStock, or the
\* overflow panic of a checking build, and nothing changes); on success every stock
\* quantity is its value before the reversal minus M's effect, which is the
\* stock before M was applied when no movement was committed since M - and
\* in that case the reversal cannot fail for lack of stock; a second
\* reverse_txn(M) fails with Conflict and changes nothing.
C6_ReversalGuarded ==
  [][ \A p \in Procs :
        /\ ( /\ pc[p] \in {"rv_delta", "rv_delta2"}
             /\ pc'[p] \in {"audit", "ret"}
             /\ result'[p].code # "DbError" )
           => /\ result'[p].code \in {"InsufficientStock", "Panic"}
              /\ \E k \in Pairs :
                   LET q == StockQty(stock, k[1], k[2])
                              - BaseEffect(Target(p), k[1], k[2])
                   IN \/ q > MaxInt
                      \/ q < 0 /\ result'[p].code = "InsufficientStock"
              /\ PosOf(Target(p).id) # Len(ledger)
              /\ ledger' = ledger
              /\ stock' = stock
        /\ (Succeeds(p) /\ req[p].kind = "REVERSAL")
           => /\ \A k \in Pairs :
                   /\ StockQty(stock', k[1], k[2])
                        = StockQty(stock, k[1], k[2]) - BaseEffect(Target(p), k[1], k[2])
                   /\ StockQty(stock', k[1], k[2]) >= 0
              /\ PosOf(Target(p).id) = Len(ledger)
                   => SameQty(stock', stock_before[PosOf(Target(p).id)])
        /\ SecondReversalConflicts(p) ]_vars

\* M was reversed right after it was applied, the stock is back to what it
\* was before M, and a second reversal of M was answered with Conflict
C6_Witness ==
  \E p \in Procs :
    LET n == Len(ledger)
    IN /\ n >= 2
       /\ ledger[n].txn_type = "REVERSAL"
       /\ ledger[n].ref_txn_id = ledger[n - 1].id
       /\ ledger[n - 1].qty > 0
       /\ SameQty(stock, stock_before[n - 1])
       /\ pc[p] = "audit"
       /\ req[p].kind = "REVERSAL"
       /\ req[p].txn_no = ledger[n - 1].txn_no
       /\ result[p].code = "Conflict"

\* C7: at most one task is inside the scope of the write_lock guard (its
\* txn_service calls and the audit write) and that task is the holder, for
\* the five txn_cmd commands, import_txns and set_storage_root alike; and
\* the committed ledger and stock tables change only in the commit step of
\* the task holding the write_lock.
C7_GateSerializes ==
  /\ [](\A p, q \in Procs :
          /\ (pc[p] \in GuardScope /\ pc[q] \in GuardScope) => p = q
          /\ pc[p] \in GuardScope => write_lock = p)
  /\ [][ Changed => /\ write_lock \in Procs
                    /\ pc[write_lock] = "commit"
                    /\ pc'[write_lock] # "commit" ]_vars

\* one task is inside a storage transaction while another waits for the lock
C7_Witness ==
  \E p, q \in Procs :
    /\ p # q
    /\ pc[p] \in TxPcs
    /\ tx[p] # NoTx
    /\ write_lock = p
    /\ pc[q] = "wait"

\* C8: NumLaunch concurrently launched Inbound(i1, s1, qty = 1) commands on
\* an empty stock end, in every scheduling, with quantity NumLaunch on
\* (i1, s1) and exactly NumLaunch rows in the ledger, all of them IN.
C8_ConcurrentInbound ==
  (\A p \in Launch : pc[p] = "done")
  => /\ StockQty(stock, "i1", "s1") = NumLaunch
     /\ Len(ledger) = NumLaunch
     /\ \A k \in 1..Len(ledger) : ledger[k].txn_type = "IN" /\ ledger[k].qty = 1

\* all launched commands have returned and the stock row holds NumLaunch
C8_Witness ==
  /\ \A p \in Launch : pc[p] = "done"
  /\ <<"i1", "s1">> \in DOMAIN stock
  /\ stock[<<"i1", "s1">>] = NumLaunch

\* C9: a successful create_count(item, slot, actual) on prior quantity p
\* appends exactly two rows - COUNT with qty 0 and actual_qty = actual, then
\* ADJUST with qty = actual - p - sets the stock row of (item, slot) to
\* actual and touches no other stock row.
C9_CountEffect ==
  [][ \A p \in Procs :
        (Succeeds(p) /\ req[p].kind = "COUNT")
        => LET r == req[p]
               n == Len(ledger)
               prior == StockQty(stock, r.item_id, r.from_slot_id)
           IN /\ Len(ledger') = n + 2
              /\ SubSeq(ledger', 1, n) = ledger
              /\ ledger'[n + 1].txn_type = "COUNT"
              /\ ledger'[n + 1].qty = 0
              /\ ledger'[n + 1].actual_qty = r.qty
              /\ ledger'[n + 1].item_id = r.item_id
              /\ ledger'[n + 1].from_slot_id = r.from_slot_id
              /\ ledger'[n + 2].txn_type = "ADJUST"
              /\ ledger'[n + 2].qty = r.qty - prior
              /\ ledger'[n + 2].actual_qty = NoActual
              /\ ledger'[n + 2].item_id = r.item_id
              /\ ledger'[n + 2].from_slot_id = r.from_slot_id
              /\ <<r.item_id, r.from_slot_id>> \in DOMAIN stock'
              /\ stock'[<<r.item_id, r.from_slot_id>>] = r.qty
              /\ OthersUntouched({<<r.item_id, r.from_slot_id>>}) ]_vars

\* a Count below the prior quantity has committed: its ADJUST row is negative
C9_Witness ==
  \E p \in Procs :
    LET n == Len(ledger)
    IN /\ pc[p] = "audit"
       /\ req[p].kind = "COUNT"
       /\ result[p].code = "Ok"
       /\ n >= 3
       /\ ledger[n - 1].txn_type = "COUNT"
       /\ ledger[n].txn_type = "ADJUST"
       /\ ledger[n].qty < 0
       /\ stock[<<req[p].item_id, req[p].from_slot_id>>] = req[p].qty

\* C10: a successful create_move(item, from, to, qty) takes exactly qty off
\* (item, from), puts exactly qty on (item, to), whose row exists afterwards,
\* touches no other stock row and appends exactly one MOVE row carrying both
\* slots.
C10_MoveEffect ==
  [][ \A p \in Procs :
        (Succeeds(p) /\ req[p].kind = "MOVE")
        => LET r == req[p]
               n == Len(ledger)
           IN /\ r.from_slot_id # r.to_slot_id
              /\ StockQty(stock, r.item_id, r.from_slot_id) >= r.qty
              /\ Len(ledger') = n + 1
              /\ SubSeq(ledger', 1, n) = ledger
              /\ ledger'[n + 1].txn_type = "MOVE"
              /\ ledger'[n + 1].item_id = r.item_id
              /\ ledger'[n + 1].from_slot_id = r.from_slot_id
              /\ ledger'[n + 1].to_slot_id = r.to_slot_id
              /\ ledger'[n + 1].qty = r.qty
              /\ <<r.item_id, r.from_slot_id>> \in DOMAIN stock'
              /\ stock'[<<r.item_id, r.from_slot_id>>]
                   = StockQty(stock, r.item_id, r.from_slot_id) - r.qty
              /\ <<r.item_id, r.to_slot_id>> \in DOMAIN stock'
              /\ stock'[<<r.item_id, r.to_slot_id>>]
                   = StockQty(stock, r.item_id, r.to_slot_id) + r.qty
              /\ OthersUntouched({<<r.item_id, r.from_slot_id>>,
                                  <<r.item_id, r.to_slot_id>>}) ]_vars

\* a Move has committed onto a target that held stock, a third pair has a row
C10_Witness ==
  \E p \in Procs :
    LET n == Len(ledger)
    IN /\ pc[p] = "audit"
       /\ req[p].kind = "MOVE"
       /\ result[p].code = "Ok"
       /\ n >= 1
       /\ ledger[n].txn_type = "MOVE"
       /\ ledger[n].from_slot_id \in Slots
       /\ ledger[n].to_slot_id \in Slots
       /\ stock[<<req[p].item_id, req[p].to_slot_id>>] > req[p].qty

\* C18: a mutating ledger command that makes its migration check while the
\* migrating flag of set_storage_root is set fails with Conflict: it never
\* reaches the wait for the write_lock, never holds it, and returns without
\* any change to the ledger or the stock.
C18_MigrationConflict ==
  /\ [][ \A p \in Procs :
           /\ (pc[p] = "idle" /\ migrating /\ pc'[p] # "idle")
              => /\ pc'[p] = "refused"
                 /\ result'[p].code = "Conflict"
                 /\ write_lock' = write_lock
                 /\ ~Changed
           /\ (pc[p] = "refused" /\ pc'[p] # "refused")
              => /\ pc'[p] = "idle"
                 /\ write_lock' = write_lock
                 /\ ~Changed ]_vars
  /\ [](\A p \in Procs :
          pc[p] = "refused" => (write_lock # p /\ tx[p] = NoTx))

\* a command was refused with Conflict while set_storage_root is migrating
C18_Witness ==
  \E p, q \in Procs :
    /\ migrating
    /\ pc[q] = "migrate"
    /\ pc[p] = "refused"
    /\ result[p].code = "Conflict"
    /\ Len(ledger) > 0

\* C19: while set_storage_root is between setting and clearing the migrating
\* flag no task is inside a storage transaction of a movement or reversal,
\* the only task inside the guard is set_storage_root itself, and the ledger
\* and the stock do not change - also when a command passed its migration
\* check before the flag was set and waits for the write_lock.
C19_MigrationExcludesLedger ==
  /\ [](migrating =>
          /\ write_lock \in Procs
          /\ pc[write_lock] = "migrate"
          /\ \A p \in Procs :
               /\ pc[p] \notin TxPcs
               /\ pc[p] \in GuardScope => p = write_lock)
  /\ [][ migrating => ~Changed ]_vars

\* the flag is set while a command that passed the check waits for the lock
C19_Witness ==
  \E p, q \in Procs :
    /\ migrating
    /\ pc[q] = "migrate"
    /\ pc[p] = "wait"
    /\ Len(ledger) > 0

\* the operator named by the request of the step is an active row
ActiveOperator(r) ==
  r.operator_id \in DOMAIN operator /\ operator[r.operator_id] = "active"

\* the step in which task p calls a txn_service function with request kind k
Calls(p, k) ==
  /\ pc[p] = "locked"
  /\ pc'[p] # "locked"
  /\ req'[p].kind = k

\* the step in which the service call of task p, of kind k, ends without
\* committing: an Err result or a panic
Ends(p, k) ==
  /\ pc[p] \in TxPcs
  /\ req[p].kind = k
  /\ pc'[p] \in {"audit", "ret"}
  /\ result'[p].code # "Ok"

\* C11 as stated: create_inbound(item, toSlot, qty) with qty > 0 and an
\* active operator is accepted whatever the stock, ends in success unless the
\* storage fails, adds exactly qty to stock(item, toSlot) (a row absent
\* before counts as 0 and exists afterwards), leaves every other stock row
\* alone and appends exactly one IN row with to_slot_id set, from_slot_id unset.
C11_Original ==
  [][ \A p \in Procs :
        /\ (Calls(p, "IN") /\ req'[p].qty > 0 /\ ActiveOperator(req'[p]))
           => pc'[p] = "in_insert"
        /\ Ends(p, "IN") => result'[p].code = "DbError"
        /\ (Succeeds(p) /\ req[p].kind = "IN")
           => LET r == req[p]
                  n == Len(ledger)
              IN /\ Len(ledger') = n + 1
                 /\ SubSeq(ledger', 1, n) = ledger
                 /\ ledger'[n + 1].txn_type = "IN"
                 /\ ledger'[n + 1].item_id = r.item_id
                 /\ ledger'[n + 1].to_slot_id = r.to_slot_id
                 /\ ledger'[n + 1].from_slot_id = NoSlot
                 /\ ledger'[n + 1].qty = r.qty
                 /\ <<r.item_id, r.to_slot_id>> \in DOMAIN stock'
                 /\ stock'[<<r.item_id, r.to_slot_id>>]
                      = StockQty(stock, r.item_id, r.to_slot_id) + r.qty
                 /\ OthersUntouched({<<r.item_id, r.to_slot_id>>}) ]_vars

\* C11 amended: create_inbound(item, toSlot, qty) with qty > 0 and an active
\* operator is accepted whatever the stock and succeeds unless the storage
\* fails or stock(item, toSlot) + qty passes the largest integer - then it
\* ends with ValidationError (or the overflow panic) and nothing changes; a
\* success adds exactly qty to stock(item, toSlot), whose row exists
\* afterwards, leaves every other stock row alone and appends exactly one IN
\* row with to_slot_id set and from_slot_id unset.
C11_InboundEffect ==
  [][ \A p \in Procs :
        /\ (Calls(p, "IN") /\ req'[p].qty > 0 /\ ActiveOperator(req'[p]))
           => pc'[p] = "in_insert"
        /\ Ends(p, "IN")
           => /\ ~Changed
              /\ \/ result'[p].code = "DbError"
                 \/ /\ result'[p].code \in {"ValidationError", "Panic"}
                    /\ StockQty(stock, req[p].item_id, req[p].to_slot_id)
                         + req[p].qty > MaxInt
        /\ (Succeeds(p) /\ req[p].kind = "IN")
           => LET r == req[p]
                  n == Len(ledger)
              IN /\ Len(ledger') = n + 1
                 /\ SubSeq(ledger', 1, n) = ledger
                 /\ ledger'[n + 1].txn_type = "IN"
                 /\ ledger'[n + 1].item_id = r.item_id
                 /\ ledger'[n + 1].to_slot_id = r.to_slot_id
                 /\ ledger'[n + 1].from_slot_id = NoSlot
                 /\ ledger'[n + 1].qty = r.qty
                 /\ <<r.item_id, r.to_slot_id>> \in DOMAIN stock'
                 /\ stock'[<<r.item_id, r.to_slot_id>>]
                      = StockQty(stock, r.item_id, r.to_slot_id) + r.qty
                 /\ OthersUntouched({<<r.item_id, r.to_slot_id>>}) ]_vars

\* an Inbound onto a pair that already held stock has committed, next to
\* another pair with stock
C11_Witness ==
  \E p \in Procs :
    LET n == Len(ledger)
    IN /\ pc[p] = "audit"
       /\ req[p].kind = "IN"
       /\ result[p].code = "Ok"
       /\ n >= 3
       /\ ledger[n].txn_type = "IN"
       /\ stock[<<req[p].item_id, req[p].to_slot_id>>] > req[p].qty
       /\ \E k \in DOMAIN stock : k # <<req[p].item_id, req[p].to_slot_id>> /\ stock[k] > 0

\* C12: create_outbound(item, fromSlot, qty) with 0 < qty <= stock(item,
\* fromSlot) by an active operator is accepted, passes the stock test and
\* ends in success unless the storage fails; it takes exactly qty off that
\* stock, touches no other stock row and appends exactly one OUT row with
\* from_slot_id set; when qty equals the stock the row stays, at quantity 0.
C12_OutboundEffect ==
  [][ \A p \in Procs :
        /\ (Calls(p, "OUT") /\ req'[p].qty > 0 /\ ActiveOperator(req'[p]))
           => pc'[p] = "out_check"
        /\ ( /\ Ends(p, "OUT")
             /\ req[p].qty <= StockQty(stock, req[p].item_id, req[p].from_slot_id) )
           => (result'[p].code = "DbError" /\ ~Changed)
        /\ (Succeeds(p) /\ req[p].kind = "OUT")
           => LET r == req[p]
                  n == Len(ledger)
                  k == <<r.item_id, r.from_slot_id>>
              IN /\ 0 < r.qty
                 /\ k \in DOMAIN stock
                 /\ r.qty <= stock[k]
                 /\ Len(ledger') = n + 1
                 /\ SubSeq(ledger', 1, n) = ledger
                 /\ ledger'[n + 1].txn_type = "OUT"
                 /\ ledger'[n + 1].item_id = r.item_id
                 /\ ledger'[n + 1].from_slot_id = r.from_slot_id
                 /\ ledger'[n + 1].to_slot_id = NoSlot
                 /\ ledger'[n + 1].qty = r.qty
                 /\ k \in DOMAIN stock'
                 /\ stock'[k] = stock[k] - r.qty
                 /\ OthersUntouched({k}) ]_vars

\* an Outbound of the whole quantity has committed: the row rests at 0
C12_Witness ==
  \E p \in Procs :
    LET n == Len(ledger)
        k == <<req[p].item_id, req[p].from_slot_id>>
    IN /\ pc[p] = "audit"
       /\ req[p].kind = "OUT"
       /\ result[p].code = "Ok"
       /\ n >= 2
       /\ ledger[n].txn_type = "OUT"
       /\ ledger[n].qty = MaxQty
       /\ k \in DOMAIN stock
       /\ stock[k] = 0

\* stock'(item, slot) = stock(item, slot) + d, on a row that exists afterwards
Shifted(item, slot, d) ==
  /\ <<item, slot>> \in DOMAIN stock'
  /\ stock'[<<item, slot>>] = StockQty(stock, item, slot) + d

\* C13: a successful reverse_txn applies the inverse effect given by the
\* target's kind - IN: to_slot minus target.qty; OUT: from_slot plus
\* target.qty; MOVE: from_slot plus and to_slot minus target.qty; ADJUST:
\* its slot minus the signed target.qty - changes no other stock row and
\* appends exactly one REVERSAL row whose ref_txn_id is the target's id and
\* whose item, slots and qty are the target's.
C13_ReversalEffect ==
  [][ \A p \in Procs :
        (Succeeds(p) /\ req[p].kind = "REVERSAL")
        => LET t == Target(p)
               n == Len(ledger)
               i == t.item_id
           IN /\ CASE t.txn_type = "IN" ->
                        /\ Shifted(i, t.to_slot_id, -t.qty)
                        /\ OthersUntouched({<<i, t.to_slot_id>>})
                   [] t.txn_type = "OUT" ->
                        /\ Shifted(i, t.from_slot_id, t.qty)
                        /\ OthersUntouched({<<i, t.from_slot_id>>})
                   [] t.txn_type = "MOVE" ->
                        /\ Shifted(i, t.from_slot_id, t.qty)
                        /\ Shifted(i, t.to_slot_id, -t.qty)
                        /\ OthersUntouched({<<i, t.from_slot_id>>, <<i, t.to_slot_id>>})
                   [] t.txn_type = "ADJUST" ->
                        /\ Shifted(i, t.from_slot_id, -t.qty)
                        /\ OthersUntouched({<<i, t.from_slot_id>>})
                   [] OTHER -> FALSE
              /\ Len(ledger') = n + 1
              /\ SubSeq(ledger', 1, n) = ledger
              /\ ledger'[n + 1].txn_type = "REVERSAL"
              /\ ledger'[n + 1].ref_txn_id = t.id
              /\ ledger'[n + 1].item_id = t.item_id
              /\ ledger'[n + 1].from_slot_id = t.from_slot_id
              /\ ledger'[n + 1].to_slot_id = t.to_slot_id
              /\ ledger'[n + 1].qty = t.qty ]_vars

\* the reversal of a negative ADJUST has committed: its slot got the
\* quantity back
C13_Witness ==
  \E p \in Procs :
    LET n == Len(ledger)
    IN /\ pc[p] = "audit"
       /\ req[p].kind = "REVERSAL"
       /\ result[p].code = "Ok"
       /\ n >= 4
       /\ ledger[n].txn_type = "REVERSAL"
       /\ ledger[n].ref_txn_id = ledger[n - 1].id
       /\ ledger[n - 1].txn_type = "ADJUST"
       /\ ledger[n - 1].qty < 0
       /\ stock[<<ledger[n].item_id, ledger[n].from_slot_id>>] = -ledger[n].qty

\* the inverse effect of the target of p's reverse_txn would take the stock
\* of some pair below 0 / above the largest integer
WouldGoNegative(p) ==
  \E k \in Pairs :
    StockQty(stock, k[1], k[2]) - BaseEffect(Target(p), k[1], k[2]) < 0
WouldOverflow(p) ==
  \E k \in Pairs :
    StockQty(stock, k[1], k[2]) - BaseEffect(Target(p), k[1], k[2]) > MaxInt

\* C14: a reverse_txn whose inverse effect would drive a stock level
\* negative never reaches the insert of its REVERSAL row: it ends with
\* InsufficientStock (a storage failure aside, and the overflow panic when
\* the same reversal would also pass the largest integer), nothing of it is
\* committed - no REVERSAL row, every stock row as before - also for a MOVE,
\* whose from_slot is raised inside the transaction before the test on the
\* to_slot fails, and for an IN whose quantity has left the slot since.
C14_ReversalInsufficient ==
  [][ \A p \in Procs :
        ( /\ pc[p] \in {"rv_delta", "rv_delta2"}
          /\ WouldGoNegative(p)
          /\ pc'[p] # pc[p] )
        => /\ ~Changed
           /\ \/ /\ pc[p] = "rv_delta"
                 /\ pc'[p] = "rv_delta2"
                 /\ Target(p).txn_type = "MOVE"
                 /\ <<Target(p).item_id, Target(p).from_slot_id>> \in DOMAIN tx'[p].writes
              \/ /\ pc'[p] = "audit"
                 /\ result'[p].code \in {"InsufficientStock", "DbError"}
              \/ /\ pc'[p] = "ret"
                 /\ result'[p].code = "Panic"
                 /\ WouldOverflow(p) ]_vars

\* the reversal of a MOVE was refused at its to_slot, the quantity having
\* left that slot, and the from_slot keeps its value
C14_Witness ==
  \E p \in Procs :
    /\ pc[p] = "audit"
    /\ req[p].kind = "REVERSAL"
    /\ result[p].code = "InsufficientStock"
    /\ Target(p).txn_type = "MOVE"
    /\ StockQty(stock, Target(p).item_id, Target(p).to_slot_id) < Target(p).qty
    /\ ~Reversed(Target(p).id)
    /\ \A k \in Pairs :
         StockQty(stock, k[1], k[2]) = SumEffects(ledger, Len(ledger), k[1], k[2])

\* the step in which task p calls reverse_txn, as an active operator, on a
\* committed OUT row that no REVERSAL references
CallsReverseOut(p) ==
  /\ Calls(p, "REVERSAL")
  /\ ActiveOperator(req'[p])
  /\ get_txn_by_no(req'[p].txn_no) # <<>>
  /\ get_txn_by_no(req'[p].txn_no)[1].txn_type = "OUT"
  /\ ~Reversed(get_txn_by_no(req'[p].txn_no)[1].id)

\* C15 as stated: reversing a not yet reversed OUT row by an active operator
\* succeeds whatever the current stock and whatever was recorded since (a
\* storage failure aside): it never fails with InsufficientStock, and it
\* adds target.qty back to the from_slot.
C15_Original ==
  [][ \A p \in Procs :
        /\ CallsReverseOut(p) => pc'[p] = "rv_delta"
        /\ (Ends(p, "REVERSAL") /\ Target(p).txn_type = "OUT")
           => result'[p].code = "DbError"
        /\ (Succeeds(p) /\ req[p].kind = "REVERSAL" /\ Target(p).txn_type = "OUT")
           => Shifted(Target(p).item_id, Target(p).from_slot_id, Target(p).qty) ]_vars

\* C15 amended: reversing a not yet reversed OUT row by an active operator
\* succeeds whatever was recorded since, unless the storage fails or the
\* from_slot's stock plus target.qty passes the largest integer - then it
\* ends with InsufficientStock (or the overflow panic) and nothing changes;
\* a success adds target.qty back to the from_slot.
C15_ReverseOutbound ==
  [][ \A p \in Procs :
        /\ CallsReverseOut(p) => pc'[p] = "rv_delta"
        /\ (Ends(p, "REVERSAL") /\ Target(p).txn_type = "OUT")
           => /\ ~Changed
              /\ \/ result'[p].code = "DbError"
                 \/ /\ result'[p].code \in {"InsufficientStock", "Panic"}
                    /\ StockQty(stock, Target(p).item_id, Target(p).from_slot_id)
                         + Target(p).qty > MaxInt
        /\ (Succeeds(p) /\ req[p].kind = "REVERSAL" /\ Target(p).txn_type = "OUT")
           => Shifted(Target(p).item_id, Target(p).from_slot_id, Target(p).qty) ]_vars

\* an OUT row was reversed after another movement had been recorded on its
\* slot, and the slot holds the quantity again
C15_Witness ==
  \E p \in Procs :
    LET n == Len(ledger)
    IN /\ pc[p] = "audit"
       /\ req[p].kind = "REVERSAL"
       /\ result[p].code = "Ok"
       /\ n >= 4
       /\ ledger[n].txn_type = "REVERSAL"
       /\ ledger[n].ref_txn_id = ledger[n - 2].id
       /\ ledger[n - 2].txn_type = "OUT"
       /\ ledger[n - 1].txn_type \in {"OUT", "MOVE"}
       /\ ledger[n - 1].from_slot_id = ledger[n - 2].from_slot_id
       /\ stock[<<ledger[n].item_id, ledger[n].from_slot_id>>] = ledger[n].qty

\* the request is structurally invalid: a quantity that is not positive for
\* Inbound, Outbound and Move, the same slot twice for Move, a negative
\* actual quantity for Count
Invalid(r) ==
  \/ r.kind \in {"IN", "OUT", "MOVE"} /\ r.qty <= 0
  \/ r.kind = "MOVE" /\ r.from_slot_id = r.to_slot_id
  \/ r.kind = "COUNT" /\ r.qty < 0

\* C16: a structurally invalid request is answered with ValidationError by
\* the first step of the service call - no operator lookup decides it (the
\* answer is ValidationError also for a missing or inactive operator), no
\* transaction is opened, ledger and stock stay as they are.
C16_ValidationFirst ==
  [][ \A p \in Procs :
        (pc[p] = "locked" /\ pc'[p] # "locked" /\ Invalid(req'[p]))
        => /\ pc'[p] = "audit"
           /\ result'[p].code = "ValidationError"
           /\ tx'[p] = NoTx
           /\ ~Changed ]_vars

\* a Move onto its own source slot, with a positive quantity and an operator
\* that is not active, was answered with ValidationError
C16_Witness ==
  \E p \in Procs :
    /\ pc[p] = "audit"
    /\ req[p].kind = "MOVE"
    /\ req[p].qty > 0
    /\ req[p].from_slot_id = req[p].to_slot_id
    /\ ~ActiveOperator(req[p])
    /\ result[p].code = "ValidationError"
    /\ Len(ledger) > 0

MovementKinds == {"IN", "OUT", "MOVE", "COUNT", "REVERSAL"}

\* the error of require_active_operator_by_id for the operator of request r
OperatorError(r) ==
  IF r.operator_id \notin DOMAIN operator THEN "NotFound" ELSE "InactiveResource"

\* the service call of task p, made with an operator that is missing or not
\* active, returns the operator's error without a transaction and without a
\* change of ledger or stock
OperatorRefused(p) ==
  /\ pc'[p] = "audit"
  /\ result'[p].code = OperatorError(req'[p])
  /\ tx'[p] = NoTx
  /\ ~Changed

\* C17 as stated: every movement operation called with an operator id that
\* does not exist fails with NotFound, and with an operator that is not active
\* with InactiveResource, whatever the other arguments are; nothing is
\* appended and no stock row changes.
C17_Original ==
  [][ \A p \in Procs :
        (/\ pc[p] = "locked" /\ pc'[p] # "locked"
         /\ req'[p].kind \in MovementKinds
         /\ ~ActiveOperator(req'[p]))
        => OperatorRefused(p) ]_vars

\* C17 (amended): a movement operation whose arguments are structurally valid
\* (C16's tests come first in create_*; reverse_txn has none before the
\* lookup) and whose operator id does not exist fails with NotFound, with an
\* operator that is not active with InactiveResource; no transaction is
\* opened, nothing is appended and no stock row changes.  With invalid
\* arguments the result is ValidationError, with the same absence of change.
C17_OperatorRefused ==
  [][ \A p \in Procs :
        (/\ pc[p] = "locked" /\ pc'[p] # "locked"
         /\ req'[p].kind \in MovementKinds
         /\ ~ActiveOperator(req'[p]))
        => /\ ~Invalid(req'[p]) => OperatorRefused(p)
           /\ Invalid(req'[p]) => result'[p].code = "ValidationError"
           /\ ~Changed /\ tx'[p] = NoTx ]_vars

\* an Outbound of a positive quantity from a stocked slot was refused because
\* its operator is not active
C17_Witness ==
  \E p \in Procs :
    /\ pc[p] = "audit"
    /\ req[p].kind = "OUT"
    /\ req[p].qty > 0
    /\ req[p].operator_id \in DOMAIN operator
    /\ ~ActiveOperator(req[p])
    /\ result[p].code = "InactiveResource"
    /\ StockQty(stock, req[p].item_id, req[p].from_slot_id) >= req[p].qty

\* C20: the guard is only ever held by a command that is still running
\* (between its lock().await and its return), never by a task that has
\* returned or has not locked yet; every holder lets the guard go, whichever
\* way its command ends; and, under fair scheduling, every command that waits
\* for the guard acquires it.
C20_GateReleased ==
  /\ [](\A p \in Procs : write_lock = p <=> pc[p] \in GuardScope)
  /\ \A p \in Procs : (write_lock = p) ~> (write_lock # p)
  /\ \A p \in Procs : (pc[p] = "wait") ~> (pc[p] = "locked")

\* a command waits for the guard while the holder, whose Outbound was refused
\* with InsufficientStock, is about to return
C20_Witness ==
  \E p \in Procs, q \in Procs :
    /\ pc[p] = "wait"
    /\ write_lock = q
    /\ pc[q] = "ret"
    /\ req[q].kind = "OUT"
    /\ result[q].code = "InsufficientStock"

\* C23: the ledger is append-only - every step leaves every committed row
\* in its place with all of its fields as they were; the sequence of
\* committed rows only grows.
C23_AppendOnly ==
  [][ /\ Len(ledger') >= Len(ledger)
      /\ \A k \in 1..Len(ledger) : ledger'[k] = ledger[k] ]_vars

\* a reversal was committed after the row it references, which still stands
\* in its place with its quantity
C23_Witness ==
  \E k \in 1..Len(ledger) :
    /\ ledger[k].txn_type = "REVERSAL"
    /\ PosOf(ledger[k].ref_txn_id) < k
    /\ ledger[PosOf(ledger[k].ref_txn_id)].qty > 0
    /\ ledger[PosOf(ledger[k].ref_txn_id)].qty = ledger[k].qty

\* C24: a stock row, once committed for an (item, slot) pair, exists in every
\* later state: no step removes a pair from the stock table, and a pair whose
\* quantity is brought to 0 keeps its row with qty = 0.
C24_StockRowKept ==
  [][ \A k \in DOMAIN stock : k \in DOMAIN stock' ]_vars

\* the only Inbound of a pair was reversed: the row is there with qty = 0
C24_Witness ==
  /\ Len(ledger) = 2
  /\ ledger[1].txn_type = "IN"
  /\ ledger[2].txn_type = "REVERSAL"
  /\ <<ledger[1].item_id, ledger[1].to_slot_id>> \in DOMAIN stock
  /\ stock[<<ledger[1].item_id, ledger[1].to_slot_id>>] = 0

\* the row that the reverse_txn call of request r names, as Option
TargetOf(r) == get_txn_by_no(r.txn_no)

\* C25: reverse_txn by an active operator on a row of type REVERSAL or COUNT
\* returns ValidationError from the call itself - no transaction is opened,
\* ledger and stock stay as they are; so no committed REVERSAL row ever
\* references a REVERSAL or a COUNT row.
C25_KindRefused ==
  /\ [][ \A p \in Procs :
           (/\ Calls(p, "REVERSAL")
            /\ ActiveOperator(req'[p])
            /\ TargetOf(req'[p]) # <<>>
            /\ TargetOf(req'[p])[1].txn_type \in {"REVERSAL", "COUNT"})
           => /\ pc'[p] = "audit"
              /\ result'[p].code = "ValidationError"
              /\ tx'[p] = NoTx
              /\ ~Changed ]_vars
  /\ [](\A k \in 1..Len(ledger) :
          ledger[k].txn_type = "REVERSAL"
          => ledger[PosOf(ledger[k].ref_txn_id)].txn_type \notin {"REVERSAL", "COUNT"})

\* the Adjust of a Count was reversed, and a reverse_txn aimed at the Count
\* row itself was refused
C25_Witness ==
  \E p \in Procs :
    /\ pc[p] = "audit"
    /\ req[p].kind = "REVERSAL"
    /\ result[p].code = "ValidationError"
    /\ TargetOf(req[p]) # <<>>
    /\ TargetOf(req[p])[1].txn_type = "COUNT"
    /\ \E k \in 1..Len(ledger) :
         /\ ledger[k].txn_type = "REVERSAL"
         /\ ledger[PosOf(ledger[k].ref_txn_id)].txn_type = "ADJUST"

\* the service call of task p ends in success: Ok(txn_no) is handed to
\* run_with_audit
Returns(p) == pc[p] = "commit" /\ pc'[p] = "audit" /\ result'[p].code = "Ok"

\* reverse_txn(txn_no) by an active operator is not refused for what the
\* row numbered txn_no is: the row exists and is of a type that reverse_txn
\* accepts as a target
Targetable(l, txn_no) ==
  \E k \in 1..Len(l) :
    l[k].txn_no = txn_no /\ l[k].txn_type \notin {"REVERSAL", "COUNT"}

\* C26 as stated: every successful operation returns the number of a row it
\* appended, and reverse_txn accepts that number as its target - for all
\* five operations, create_count included.
C26_Original ==
  [][ \A p \in Procs :
        Returns(p)
        => /\ \E k \in (Len(ledger) + 1)..Len(ledger') :
                ledger'[k].txn_no = result'[p].txn_no
           /\ req[p].kind # "REVERSAL" => Targetable(ledger', result'[p].txn_no) ]_vars

\* what the code does: the number returned is that of the first row the call
\* appended; for create_inbound, create_outbound and create_move that row
\* can be reversed, for create_count it is the COUNT row, which reverse_txn
\* refuses, while the number of the ADJUST row is not returned
C26_ReturnedNumber ==
  [][ \A p \in Procs :
        Returns(p)
        => /\ ledger'[Len(ledger) + 1].txn_no = result'[p].txn_no
           /\ req[p].kind \in {"IN", "OUT", "MOVE"}
                => Targetable(ledger', result'[p].txn_no)
           /\ req[p].kind = "COUNT"
                => /\ ~Targetable(ledger', result'[p].txn_no)
                   /\ ledger'[Len(ledger) + 2].txn_type = "ADJUST"
                   /\ ledger'[Len(ledger) + 2].txn_no # result'[p].txn_no ]_vars

\* a reverse_txn called with the number that create_count returned (that of
\* the COUNT row, the first of its two rows) was refused
C26_Witness ==
  \E p \in Procs :
    /\ pc[p] = "audit"
    /\ req[p].kind = "REVERSAL"
    /\ result[p].code = "ValidationError"
    /\ Len(ledger) = 2
    /\ ledger[1].txn_type = "COUNT"
    /\ ledger[2].txn_type = "ADJUST"
    /\ req[p].txn_no = ledger[1].txn_no

\* C27 as stated: every committed ledger row has qty >= 0.
C27_Original == \A k \in 1..Len(ledger) : ledger[k].qty >= 0

\* C27 (amended): the rows of type IN, OUT and MOVE have qty > 0 and a COUNT
\* row has qty = 0 and actual_qty >= 0; an ADJUST row carries the signed
\* difference between the counted quantity of the COUNT row before it and the
\* stock the pair had, negative when the count lowers the stock; a REVERSAL
\* row copies the qty of the row it references.  So qty < 0 occurs exactly in
\* lowering ADJUST rows and in their reversals.
C27_QtySign ==
  \A k \in 1..Len(ledger) :
    LET r == ledger[k]
    IN CASE r.txn_type \in {"IN", "OUT", "MOVE"} -> r.qty > 0
         [] r.txn_type = "COUNT" -> r.qty = 0 /\ r.actual_qty >= 0
         [] r.txn_type = "ADJUST" ->
              /\ k > 1
              /\ ledger[k - 1].txn_type = "COUNT"
              /\ r.qty = ledger[k - 1].actual_qty
                          - StockQty(stock_before[k], r.item_id, r.from_slot_id)
         [] r.txn_type = "REVERSAL" -> r.qty = ledger[PosOf(r.ref_txn_id)].qty
         [] OTHER -> FALSE

\* a Count lowered the stock - its ADJUST row has qty < 0 - and the reversal
\* of that ADJUST row was committed with the same negative qty
C27_Witness ==
  \E k \in 1..Len(ledger), j \in 1..Len(ledger) :
    /\ ledger[k].txn_type = "ADJUST"
    /\ ledger[k].qty < 0
    /\ ledger[j].txn_type = "REVERSAL"
    /\ ledger[j].ref_txn_id = ledger[k].id
    /\ ledger[j].qty < 0

\* C28: when the audit record of a successfully committed movement cannot
\* be written, the command's result turns into an error, but the step leaves
\* ledger and stock as the commit made them, and so does the return of the
\* command that follows.
C28_AuditFailureKeepsCommit ==
  [][ \A p \in Procs :
        /\ (pc[p] = "audit" /\ result[p].code = "Ok" /\ result'[p].code # "Ok")
           => pc'[p] = "ret" /\ ~Changed
        /\ (pc[p] = "ret" /\ pc'[p] # "ret") => ~Changed ]_vars

\* a reverse_txn returned the audit error although its REVERSAL row, the last
\* of the ledger, is committed and the stock of its target's slot updated
C28_Witness ==
  \E p \in Procs :
    /\ pc[p] = "ret"
    /\ req[p].kind = "REVERSAL"
    /\ result[p].code = "DbError"
    /\ TargetOf(req[p]) # <<>>
    /\ TargetOf(req[p])[1].txn_type = "IN"
    /\ ledger[Len(ledger)].txn_type = "REVERSAL"
    /\ ledger[Len(ledger)].ref_txn_id = TargetOf(req[p])[1].id
    /\ stock # stock_before[Len(ledger)]

\* number of rows of ledger l whose type is in ts
RowCount(l, ts) == Cardinality({k \in 1..Len(l) : l[k].txn_type \in ts})

\* C30: a service call that succeeds appends exactly one row - of the type of
\* the operation - or, for create_count, exactly two, a COUNT and an ADJUST
\* row; every other step, the end of a failed call included, appends none.
\* So in every state the ledger holds one row per successful Inbound,
\* Outbound, Move and Reversal and two per successful Count.
C30_ExactlyOnce ==
  /\ [][ /\ \A p \in Procs :
              Succeeds(p)
              => LET n == Len(ledger)
                 IN IF req[p].kind = "COUNT"
                    THEN /\ Len(ledger') = n + 2
                         /\ ledger'[n + 1].txn_type = "COUNT"
                         /\ ledger'[n + 2].txn_type = "ADJUST"
                    ELSE /\ Len(ledger') = n + 1
                         /\ ledger'[n + 1].txn_type = req[p].kind
         /\ (\A p \in Procs : ~Succeeds(p)) => ledger' = ledger ]_vars
  /\ [](/\ RowCount(ledger, {"ADJUST"}) = RowCount(ledger, {"COUNT"})
        /\ Len(ledger) = RowCount(ledger, {"IN", "OUT", "MOVE", "REVERSAL"})
                          + 2 * RowCount(ledger, {"COUNT"})
        /\ \A j \in 1..Len(ledger), k \in 1..Len(ledger) :
             ledger[j].id = ledger[k].id => j = k)

\* after a successful Inbound (one row) and a successful Count (two rows) a
\* reversal failed with InsufficientStock: three rows stand
C30_Witness ==
  \E p \in Procs :
    /\ pc[p] = "audit"
    /\ req[p].kind = "REVERSAL"
    /\ result[p].code = "InsufficientStock"
    /\ Len(ledger) = 3
    /\ RowCount(ledger, {"COUNT"}) = 1
    /\ RowCount(ledger, {"ADJUST"}) = 1
    /\ RowCount(ledger, {"IN"}) = 1

\* C21: the read commands list_txns, list_stock_by_slot and
\* list_stock_by_item are never blocked by the gate or by the migration
\* flag: whoever holds write_lock and whatever migrating is, an idle task can
\* start each of them and a task inside one can take its next step up to the
\* return; a reading task never holds write_lock.
C21_ReadsNotBlocked ==
  \A p \in Procs :
    /\ pc[p] = "idle" => /\ ENABLED list_txns(p)
                         /\ ENABLED count_stock_by_slot_filtered(p)
    /\ pc[p] = "ls_list" => ENABLED list_stock_by_slot(p)
    /\ pc[p] = "lt_count" => ENABLED count_txns_filtered(p)
    /\ pc[p] = "listed" => ENABLED return_view(p)
    /\ pc[p] \in ReadPcs => write_lock # p

\* a list_txns has got both its rows and its total while another task holds
\* the gate for a migration of the storage root
C21_Witness ==
  \E p \in Procs, q \in Procs :
    /\ pc[p] = "listed"
    /\ view[p].what = "txns"
    /\ Len(view[p].rows) > 0
    /\ write_lock = q
    /\ pc[q] = "migrate"
    /\ migrating

\* the first n rows of the ledger are whole commits: row n is not a COUNT
\* row, whose ADJUST row the same commit appended after it (C30)
Boundary(n) == n = 0 \/ ledger[n].txn_type # "COUNT"

\* the stock table as it was when the ledger held its first n rows
StockAt(n) == IF n = Len(ledger) THEN stock ELSE stock_before[n + 1]

\* the committed states the database has been in: after each commit so far
Snapshots ==
  {[items |-> StockAt(n), rows |-> SubSeq(ledger, 1, n)] :
     n \in {m \in 0..Len(ledger) : Boundary(m)}}

\* C22: what a query of a read command returns is the state before or the
\* state after each commit, never a state in between: the rows and
\* quantities a stock listing shows are those of one committed state (a
\* MOVE's two slots both updated or neither, every ledger row it looks at
\* together with its stock update), and the rows list_txns shows are whole
\* commits (no COUNT row without its ADJUST row).
C22_ReadsSeeCommits ==
  \A p \in Procs :
    /\ (pc[p] = "listed" /\ view[p].what \in {"stock_by_slot", "stock_by_item"})
       => [items |-> view[p].items, rows |-> view[p].rows] \in Snapshots
    /\ (pc[p] \in {"lt_count", "listed"} /\ view[p].what = "txns")
       => \E s \in Snapshots : s.rows = view[p].rows

\* a stock listing holds the state before a Move whose transaction has
\* already taken the quantity off the source slot and not yet added it to the
\* target slot
C22_Witness ==
  \E p \in Procs, q \in Procs :
    /\ pc[p] = "listed"
    /\ view[p].what = "stock_by_slot"
    /\ view[p].items = stock
    /\ pc[q] = "mv_to"
    /\ req[q].kind = "MOVE"
    /\ <<req[q].item_id, req[q].from_slot_id>> \in DOMAIN tx[q].writes
    /\ <<req[q].item_id, req[q].to_slot_id>> \notin DOMAIN tx[q].writes
    /\ Len(tx[q].rows) = 1

\* C29: movements are linearized by the gate - of two committed rows, the one
\* whose command acquired the gate first stands first in the ledger and its
\* created_at is not later than the other's (the clock never going back).
C29_GateOrder ==
  \A i \in 1..Len(ledger), j \in 1..Len(ledger) :
    order.of[i] < order.of[j]
    => i < j /\ ledger[i].created_at <= ledger[j].created_at

\* occurred_at follows no such order: a row inserted earlier, by the command
\* that acquired the gate earlier and with the earlier created_at, carries the
\* later occurred_at
C29_Witness ==
  \E i \in 1..Len(ledger), j \in 1..Len(ledger) :
    /\ order.of[i] < order.of[j]
    /\ i < j
    /\ ledger[i].created_at < ledger[j].created_at
    /\ ledger[i].occurred_at > ledger[j].occurred_at

\* C31: at the moment a ledger row is inserted - by insert_txn into the open
\* transaction, and by the commit that publishes it - its operator_id names
\* an operator row whose status is active, in every interleaving of the
\* movement commands with set_operator_status commands; the operator table
\* does not change in a step that inserts a row.
C31_ActiveAtInsertion ==
  [][ \A p \in Procs :
        /\ Len(tx'[p].rows) > Len(tx[p].rows)
           => /\ operator' = operator
              /\ LET row == tx'[p].rows[Len(tx'[p].rows)]
                 IN /\ row.operator_id \in DOMAIN operator
                    /\ operator[row.operator_id] = "active"
        /\ (pc[p] = "commit" /\ Len(ledger') > Len(ledger))
           => /\ operator' = operator
              /\ \A k \in (Len(ledger) + 1)..Len(ledger') :
                   /\ ledger'[k].operator_id \in DOMAIN operator
                   /\ operator[ledger'[k].operator_id] = "active" ]_vars

\* a row was committed for an operator who was switched off afterwards, a
\* movement naming that operator was then refused, and a row of an operator
\* who was inactive at the start is in the ledger
C31_Witness ==
  /\ \E k \in 1..Len(ledger) : operator[ledger[k].operator_id] = "inactive"
  /\ \E k \in 1..Len(ledger) : ledger[k].operator_id = "op2"
  /\ \E p \in Procs :
       /\ pc[p] = "audit"
       /\ result[p].code = "InactiveResource"
       /\ \E k \in 1..Len(ledger) : ledger[k].operator_id = req[p].operator_id

\* positions of the rows of ledger l that carry this id
PositionsOf(l, id) == {j \in 1..Len(l) : l[j].id = id}

\* following ref_txn_id from row k of ledger l ends at a row without a
\* reference within n steps
RECURSIVE ChainEnds(_, _, _)
ChainEnds(l, k, n) ==
  IF n = 0 THEN FALSE
  ELSE IF l[k].ref_txn_id = NoRef THEN TRUE
  ELSE \A j \in PositionsOf(l, l[k].ref_txn_id) : ChainEnds(l, j, n - 1)

ReversibleKinds == {"IN", "OUT", "MOVE", "ADJUST"}

\* C32: in every committed ledger ref_txn_id is set on REVERSAL rows only
\* (on no IN, OUT, MOVE, COUNT - or ADJUST - row); every REVERSAL row's
\* ref_txn_id is the id of exactly one row that stands before it in the
\* ledger and is of type IN, OUT, MOVE or ADJUST; following the references
\* from any row ends after fewer steps than the ledger has rows (no cycle);
\* and a commit only appends rows whose reference is already committed.
C32_ReferenceForest ==
  /\ [](\A k \in 1..Len(ledger) :
          /\ ledger[k].ref_txn_id # NoRef <=> ledger[k].txn_type = "REVERSAL"
          /\ ledger[k].txn_type = "REVERSAL"
             => /\ Cardinality(PositionsOf(ledger, ledger[k].ref_txn_id)) = 1
                /\ \A j \in PositionsOf(ledger, ledger[k].ref_txn_id) :
                     j < k /\ ledger[j].txn_type \in ReversibleKinds
          /\ ChainEnds(ledger, k, Len(ledger)))
  /\ [][ \A k \in (Len(ledger) + 1)..Len(ledger') :
           ledger'[k].ref_txn_id # NoRef
           => PositionsOf(ledger, ledger'[k].ref_txn_id) # {} ]_vars

\* the ledger holds a COUNT, its ADJUST and a REVERSAL that references the
\* ADJUST
C32_Witness ==
  /\ \E k \in 1..Len(ledger) : ledger[k].txn_type = "COUNT"
  /\ \E j, k \in 1..Len(ledger) :
       /\ ledger[j].txn_type = "ADJUST"
       /\ ledger[k].txn_type = "REVERSAL"
       /\ ledger[k].ref_txn_id = ledger[j].id

\* C33 as stated: every committed ADJUST row carries a ref_txn_id, and it is
\* the id of the COUNT row written by the same create_count (the row right
\* before it).
C33_Original ==
  \A k \in 1..Len(ledger) :
    ledger[k].txn_type = "ADJUST"
    => /\ k > 1
       /\ ledger[k - 1].txn_type = "COUNT"
       /\ ledger[k].ref_txn_id = ledger[k - 1].id

\* C33 as the code has it: every committed ADJUST row stands right after the
\* COUNT row of the same create_count, with the same item, slot, operator and
\* time fields, and carries no ref_txn_id; the pair is linked by nothing
\* else.
C33_AdjustUnlinked ==
  \A k \in 1..Len(ledger) :
    ledger[k].txn_type = "ADJUST"
    => /\ k > 1
       /\ ledger[k - 1].txn_type = "COUNT"
       /\ ledger[k - 1].item_id = ledger[k].item_id
       /\ ledger[k - 1].from_slot_id = ledger[k].from_slot_id
       /\ ledger[k - 1].operator_id = ledger[k].operator_id
       /\ ledger[k - 1].created_at = ledger[k].created_at
       /\ ledger[k - 1].ref_txn_id = NoRef
       /\ ledger[k].ref_txn_id = NoRef

\* a create_count that found 0 and counted more has committed its two rows
C33_Witness ==
  \E k \in 2..Len(ledger) :
    /\ ledger[k].txn_type = "ADJUST"
    /\ ledger[k].qty > 0
    /\ ledger[k - 1].txn_type = "COUNT"
    /\ ledger[k - 1].actual_qty = ledger[k].qty

\* the step in which run_with_audit of task p writes the audit record
Audits(p) == pc[p] = "audit" /\ pc'[p] = "ret"

\* C34 as stated: the audit record of a movement command is written only
\* after the guard taken for that command was released, never while the task
\* still holds write_lock.
C34_Original ==
  [][ \A p \in Procs : (Audits(p) /\ cmd[p] = "txn") => write_lock # p ]_vars

\* C34 as the code has it: the audit record of a command is written while
\* the task still holds write_lock - the guard is released only by the
\* return that follows - and the write changes neither ledger nor stock.
C34_AuditUnderGate ==
  [][ \A p \in Procs :
        Audits(p) => /\ write_lock = p
                     /\ write_lock' = p
                     /\ ledger' = ledger
                     /\ stock' = stock ]_vars

\* the audit record of a committed movement is written, the guard is still
\* held, and another command waits for it
C34_Witness ==
  \E p, q \in Procs :
    /\ pc[p] = "ret"
    /\ cmd[p] = "txn"
    /\ result[p].code = "Ok"
    /\ write_lock = p
    /\ pc[q] = "wait"

ErrorCodes == {"AuthFailed", "PwdChangeRequired", "ValidationError", "NotFound",
               "InactiveResource", "InsufficientStock", "Conflict", "Forbidden",
               "DbError", "IoError"}

\* C35: when run_with_audit's audit write fails, an Ok of the operation is
\* replaced by an error with code DbError or IoError (IoError only for an
\* IoError of the audit write, DbError for anything else) although ledger and
\* stock keep what the operation committed, and an error of the operation is
\* returned as it was; when the audit write succeeds the operation's result
\* is returned as it was.
C35_ResultSubstitution ==
  /\ [][ \A p \in Procs :
           Audits(p)
           => LET r == result[p]
                  out == result'[p]
              IN /\ out.audit \in {"written", "failed"}
                 /\ ledger' = ledger /\ stock' = stock
                 /\ (out.audit = "written" \/ r.code # "Ok")
                    => out.code = r.code /\ out.txn_no = r.txn_no
                 /\ (out.audit = "failed" /\ r.code = "Ok")
                    => /\ out.code \in {"DbError", "IoError"}
                       /\ out.txn_no = NoTxnNo
                       /\ r.txn_no # NoTxnNo
                          => \E k \in 1..Len(ledger') : ledger'[k].txn_no = r.txn_no ]_vars
  /\ [](\A c \in ErrorCodes :
          /\ map_audit_error(c) \in {"DbError", "IoError"}
          /\ map_audit_error(c) = "IoError" <=> c = "IoError")

\* a create_count has committed its two rows (no other call can have left
\* the ledger at two rows while this one held the guard) and its command
\* returns the error of the failed audit write
C35_Witness ==
  \E p \in Procs :
    /\ pc[p] = "ret"
    /\ req[p].kind = "COUNT"
    /\ result[p].audit = "failed"
    /\ result[p].code = "DbError"
    /\ Len(ledger) = 2
    /\ ledger[2].txn_type = "ADJUST"

\* the first precondition of reverse_txn that request r fails in the
\* committed state, in the order of the claim; "none" if it fails none
FirstRefusal(r) ==
  IF r.operator_id \notin DOMAIN operator THEN "NotFound"
  ELSE IF operator[r.operator_id] # "active" THEN "InactiveResource"
  ELSE IF TargetOf(r) = <<>> THEN "NotFound"
  ELSE IF TargetOf(r)[1].txn_type \in {"REVERSAL", "COUNT"} THEN "ValidationError"
  ELSE IF Reversed(TargetOf(r)[1].id) THEN "Conflict"
  ELSE "none"

\* C36: reverse_txn reports the first precondition that fails, in the order
\* operator missing (NotFound), operator inactive (InactiveResource), target
\* number absent (NotFound), target kind REVERSAL or COUNT (ValidationError),
\* target already reversed (Conflict), and changes nothing; only a call that
\* fails none of them opens a transaction, and InsufficientStock comes from
\* the inverse effect inside that transaction only, again changing nothing.
C36_RefusalOrder ==
  [][ \A p \in Procs :
        /\ (pc[p] = "locked" /\ pc'[p] # "locked" /\ req'[p].kind = "REVERSAL")
           => IF FirstRefusal(req'[p]) # "none"
              THEN /\ pc'[p] = "audit"
                   /\ result'[p].code = FirstRefusal(req'[p])
                   /\ tx'[p] = NoTx
                   /\ ledger' = ledger
                   /\ stock' = stock
              ELSE /\ pc'[p] = "rv_delta"
                   /\ tx'[p] = NoTx
        /\ (req[p].kind = "REVERSAL" /\ result'[p].code = "InsufficientStock"
              /\ result[p].code # "InsufficientStock")
           => /\ pc[p] \in {"rv_delta", "rv_delta2"}
              /\ FirstRefusal(req[p]) = "none"
              /\ WouldGoNegative(p) \/ WouldOverflow(p)
              /\ ledger' = ledger
              /\ stock' = stock ]_vars

\* a second reversal of a reversed IN row, whose inverse effect would also
\* take the stock below 0, was refused with Conflict
C36_Witness ==
  \E p \in Procs :
    /\ pc[p] = "audit"
    /\ req[p].kind = "REVERSAL"
    /\ result[p].code = "Conflict"
    /\ Target(p).txn_type = "IN"
    /\ WouldGoNegative(p)

\* task p is inside set_storage_root between `*migrating = true` and
\* `*migrating = false`
Relocating(p) ==
  pc[p] = "migrate" /\ cmd[p] = "set_storage_root" /\ write_lock = p

\* C37: the migrating flag is set only while a set_storage_root is between
\* its two assignments, holding the guard; whichever way that command ends
\* after setting the flag (relocation done, relocation failed, audit write
\* failed) the flag is false when the command is about to return and when
\* the guard is released; a set_storage_root refused by the admin check never
\* sets the flag; and under fair scheduling a set flag is always cleared
\* again, so the Conflict of ensure_not_migrating does not last.
C37_FlagCleared ==
  /\ [](migrating => \E p \in Procs : Relocating(p))
  /\ [](\A p \in Procs :
          (pc[p] = "ret" /\ cmd[p] = "set_storage_root") => ~migrating)
  /\ [][ \A p \in Procs :
           /\ (Relocating(p) /\ pc'[p] # "migrate")
              => /\ pc'[p] = "ret"
                 /\ ~migrating'
                 /\ write_lock' = p
                 /\ result'[p].audit \in {"written", "failed"}
           /\ (pc[p] = "locked" /\ cmd[p] = "set_storage_root"
                 /\ result'[p].code = "Forbidden")
              => pc'[p] = "ret" /\ ~migrating /\ ~migrating'
           /\ (cmd[p] = "set_storage_root" /\ write_lock = p /\ write_lock' # p)
              => ~migrating /\ ~migrating' ]_vars
  /\ (migrating ~> ~migrating)

\* a set_storage_root whose audit write failed is about to return with the
\* flag cleared, while a command that met the set flag holds its Conflict
C37_Witness ==
  \E p, q \in Procs :
    /\ pc[p] = "ret"
    /\ cmd[p] = "set_storage_root"
    /\ result[p].audit = "failed"
    /\ result[p].code = "DbError"
    /\ ~migrating
    /\ pc[q] = "refused"
    /\ result[q].code = "Conflict"

\* the pair has no row in the committed stock table
Absent(item, slot) == <<item, slot>> \notin DOMAIN stock

DeltaInputs == (-MaxQty)..MaxQty

\* C38: every operation reads an absent stock row as quantity 0 - an Inbound
\* or the target side of a Move creates the row with qty, a Count finds prior
\* 0 (its ADJUST carries actual_qty) and creates the row with actual_qty, an
\* Outbound or the source side of a Move is refused with InsufficientStock,
\* apply_stock_delta (the reversal's delta) creates the row with a delta >= 0
\* and refuses a negative one - and a service call that fails creates no
\* row: the rows of the stock table are those from before the call.
C38_AbsentRowIsZero ==
  /\ [][ \A p \in Procs :
           /\ ( /\ pc[p] \in TxPcs \cup {"locked"}
                /\ pc'[p] \in {"audit", "ret"}
                /\ result'[p].code # "Ok" )
              => /\ DOMAIN stock' = DOMAIN stock
                 /\ stock' = stock
           /\ ( /\ pc[p] \in {"out_check", "mv_check"}
                /\ Absent(req[p].item_id, req[p].from_slot_id)
                /\ pc'[p] # pc[p] )
              => /\ pc'[p] = "audit"
                 /\ result'[p].code \in {"InsufficientStock", "DbError"}
                 /\ <<req[p].item_id, req[p].from_slot_id>> \notin DOMAIN stock'
           /\ ( /\ Succeeds(p)
                /\ req[p].kind \in {"IN", "MOVE"}
                /\ Absent(req[p].item_id, req[p].to_slot_id) )
              => stock'[<<req[p].item_id, req[p].to_slot_id>>] = req[p].qty
           /\ ( /\ Succeeds(p)
                /\ req[p].kind = "COUNT"
                /\ Absent(req[p].item_id, req[p].from_slot_id) )
              => /\ stock'[<<req[p].item_id, req[p].from_slot_id>>] = req[p].qty
                 /\ ledger'[Len(ledger')].txn_type = "ADJUST"
                 /\ ledger'[Len(ledger')].qty = req[p].qty ]_vars
  /\ [](\A k \in Pairs \ DOMAIN stock, d \in DeltaInputs :
          /\ get_stock_tx(NoTx, k[1], k[2]) = <<>>
          /\ apply_stock_delta(NoTx, k[1], k[2], d)
               = IF d < 0 THEN [err |-> "InsufficientStock", tx |-> NoTx]
                 ELSE [err |-> "none",
                       tx |-> [NoTx EXCEPT !.writes = Put(EmptyStock, k, d)]])

\* an Outbound from a pair that has no row was refused and the pair still
\* has no row, while an Inbound or Count has created the row of another pair
C38_Witness ==
  \E p \in Procs :
    /\ pc[p] = "audit"
    /\ req[p].kind = "OUT"
    /\ result[p].code = "InsufficientStock"
    /\ Absent(req[p].item_id, req[p].from_slot_id)
    /\ \E k \in DOMAIN stock : stock[k] > 0

\* task p is inside import_txns, holding what it read from its file
Importing(p) == cmd[p] = "import_txns" /\ pc[p] # "idle"

\* what a ledger row shows of the record it was written for
Shape(row) ==
  <<row.txn_type, row.from_slot_id, row.to_slot_id,
    CASE row.txn_type = "COUNT" -> row.actual_qty
      [] row.txn_type = "ADJUST" -> 0
      [] OTHER -> row.qty>>

\* the shapes of the rows the service call of a record inserts
ShapesOf(rec) ==
  CASE rec.kind = "COUNT" -> <<<<"COUNT", rec.from_slot_id, NoSlot, rec.qty>>,
                               <<"ADJUST", rec.from_slot_id, NoSlot, 0>>>>
    [] rec.kind = "bad" -> <<>>
    [] OTHER -> <<<<rec.kind, rec.from_slot_id, rec.to_slot_id, rec.qty>>>>

RECURSIVE ShapesOfFirst(_, _)
ShapesOfFirst(f, n) ==
  IF n = 0 THEN <<>> ELSE ShapesOfFirst(f, n - 1) \o ShapesOf(f[n])

\* the rows committed since the import took the guard
SinceBase == [k \in 1..(Len(ledger) - reader.base) |-> Shape(ledger[reader.base + k])]

\* C39: import_txns holds the guard from its lock to its return; the rows
\* committed since it took the guard are at every moment those of the first
\* records of the file, in the file's order, every commit adding the whole
\* effect of exactly the next record; the first record whose call fails ends
\* the import with that error and changes nothing, the rows of the records
\* before it staying committed (ledger and stock), and from then on nothing
\* is applied; Ok is returned only after the last record.
C39_ImportStopsAtFirstFailure ==
  /\ [](\A p \in Procs :
          Importing(p)
          => /\ write_lock = p
             /\ SinceBase = ShapesOfFirst(reader.records, Consumed)
             /\ (pc[p] = "audit" /\ result[p].code = "Ok")
                => Consumed = Len(reader.records)
             /\ (pc[p] = "audit" /\ result[p].code # "Ok")
                => Consumed < Len(reader.records))
  /\ [][ \A p \in Procs :
           Importing(p)
           => /\ write_lock' # p => pc[p] = "ret"
              /\ pc[p] \in {"audit", "ret"}
                 => /\ ledger' = ledger
                    /\ stock' = stock
                    /\ pc'[p] \in {"audit", "ret", "idle"}
              /\ Fails(p) => ~Changed
              /\ Changed
                 => /\ WholeEffect(p)
                    /\ pc'[p] = "locked"
                    /\ Len(ledger') - Len(ledger) = RowsOf(reader.records[Consumed + 1])
                    /\ req[p].kind = reader.records[Consumed + 1].kind ]_vars

\* the second record of a file of three failed for lack of stock: the row
\* of the first record is committed, the stock holds its quantity, and the
\* third record is never applied
C39_Witness ==
  \E p \in Procs :
    /\ Importing(p)
    /\ pc[p] = "ret"
    /\ result[p].code = "InsufficientStock"
    /\ Len(reader.records) = 3
    /\ Consumed = 1
    /\ reader.records[3].kind = "IN"
    /\ Len(ledger) = reader.base + 1
    /\ ledger[Len(ledger)].txn_type = "IN"
    /\ stock[<<"i1", "s1">>] > 0

====
